---------------------------- MODULE Spec2Model ----------------------------
(***************************************************************************)
(* Expectation ledger of the proxy-wasm test framework                     *)
(* (src/src/expectations.rs): the staged Expect structure owned by         *)
(* ExpectHandle, its seventeen per-host-call queues, the set_expect_* /    *)
(* get_expect_* pairs, and update_stage / assert_stage / print_staged.     *)
(***************************************************************************)
EXTENDS Integers, Sequences, FiniteSets, TLC

(***************************************************************************)
(* Bounds of the exploration.                                              *)
(***************************************************************************)
\* set_expect_* calls explored on one staged ledger
MaxEnqueue == 2
\* get_expect_* calls explored on one staged ledger
MaxCalls == 2

(***************************************************************************)
(* Option<T>: None is the empty tuple, Some(v) the one-element tuple.      *)
(***************************************************************************)
None == << >>

Some(v) == << v >>

Opt(S) == {None} \cup { Some(v) : v \in S }

\* Option::unwrap_or
unwrap_or(o, default) == IF o = None THEN default ELSE o[1]

(***************************************************************************)
(* Wide unsigned integers.  A u64 is four and a u128 eight 16-bit limbs,   *)
(* most significant first, so that values beyond the checker's native      *)
(* integers keep the width they have in the program.                       *)
(***************************************************************************)
LimbBase == 2 ^ 16

\* n < 65536 as u64 / u128
U64(n) == << 0, 0, 0, n >>

U128(n) == << 0, 0, 0, 0, 0, 0, 0, n >>

\* `x as u128` for x: u64
WidenU128(x) == << 0, 0, 0, 0 >> \o x

RECURSIVE LongDiv(_, _, _, _, _)
\* x / d and x % d for a small divisor d, limb by limb from the top
LongDiv(x, d, i, rem, acc) ==
    IF i > Len(x)
    THEN [q |-> acc, r |-> rem]
    ELSE LET cur == rem * LimbBase + x[i]
         IN  LongDiv(x, d, i + 1, cur % d, Append(acc, cur \div d))

DivMod(x, d) == LongDiv(x, d, 1, 0, << >>)

RECURSIVE MulAddFrom(_, _, _, _, _)
\* x * m + c for small m and c, limb by limb from the bottom (wrapping at
\* the width of x)
MulAddFrom(x, m, i, carry, acc) ==
    IF i = 0
    THEN acc
    ELSE LET t == x[i] * m + carry
         IN  MulAddFrom(x, m, i - 1, t \div LimbBase, << t % LimbBase >> \o acc)

MulAdd(x, m, c) == MulAddFrom(x, m, Len(x), c, << >>)

\* `x as i32` for x: u128 -- the low 32 bits read as two's complement
AsI32(x) ==
    LET hi == x[Len(x) - 1]
        lo == x[Len(x)]
    IN  IF hi < 32768 THEN hi * LimbBase + lo ELSE (hi - LimbBase) * LimbBase + lo

(***************************************************************************)
(* std::time::Duration as {secs: u64, nanos: u32}, and SystemTime as the   *)
(* Duration since UNIX_EPOCH.                                              *)
(***************************************************************************)
\* Duration::from_millis(millis: u64)
Duration_from_millis(millis) ==
    LET d == DivMod(millis, 1000)
    IN  [secs |-> d.q, nanos |-> d.r * 1000000]

\* Duration::as_millis(&self) -> u128
Duration_as_millis(dur) ==
    MulAdd(WidenU128(dur.secs), 1000, dur.nanos \div 1000000)

\* Duration::from_nanos(nanos: u64): secs = nanos / 10^9, subsec = nanos % 10^9
Duration_from_nanos(nanos) ==
    LET d1 == DivMod(nanos, 1000)
        d2 == DivMod(d1.q, 1000)
        d3 == DivMod(d2.q, 1000)
    IN  [secs |-> d3.q, nanos |-> d3.r * 1000000 + d2.r * 1000 + d1.r]

\* Duration::as_nanos(&self) -> u128: secs * 10^9 + subsec
Duration_as_nanos(dur) ==
    LET r3 == dur.nanos \div 1000000
        r2 == (dur.nanos \div 1000) % 1000
        r1 == dur.nanos % 1000
    IN  MulAdd(MulAdd(MulAdd(WidenU128(dur.secs), 1000, r3), 1000, r2), 1000, r1)

\* UNIX_EPOCH + Duration::from_nanos(time_nanos)
SystemTime_from_nanos(time_nanos) == Duration_from_nanos(time_nanos)

\* time.duration_since(UNIX_EPOCH).unwrap().as_nanos()
SystemTime_as_nanos(time) == Duration_as_nanos(time)

(***************************************************************************)
(* Strings and byte buffers.  A String is a TLA+ string; Bytes is a tuple  *)
(* of octets.  Utf8 is the encoding of the strings the inputs draw from.   *)
(***************************************************************************)
Utf8 ==
    ("a" :> << 97 >>) @@ ("b" :> << 98 >>) @@ ("k" :> << 107 >>) @@
    ("v" :> << 118 >>) @@ ("x" :> << 120 >>) @@ ("y" :> << 121 >>) @@
    ("" :> << >>)

\* str::as_bytes().to_vec()
as_bytes(s) == Utf8[s]

\* u32::to_le_bytes for n < 65536
U32LE(n) == << n % 256, n \div 256, 0, 0 >>

RECURSIVE MapSizes(_, _)
MapSizes(map, i) ==
    IF i > Len(map)
    THEN << >>
    ELSE U32LE(Len(as_bytes(map[i][1]))) \o U32LE(Len(as_bytes(map[i][2])))
         \o MapSizes(map, i + 1)

RECURSIVE MapData(_, _)
MapData(map, i) ==
    IF i > Len(map)
    THEN << >>
    ELSE as_bytes(map[i][1]) \o << 0 >> \o as_bytes(map[i][2]) \o << 0 >>
         \o MapData(map, i + 1)

\* hostcalls::serial_utils::serialize_map: the pair count, the sizes of every
\* key and value, then every key and value NUL-terminated, in sequence order
serialize_map(map) == U32LE(Len(map)) \o MapSizes(map, 1) \o MapData(map, 1)

(***************************************************************************)
(* The Expect structure (expectations.rs 66-93).  Every queue is a Vec,    *)
(* modelled as a sequence; each element carries, beside the tuple the      *)
(* program stores (rec), the ordinal of the set_expect_* call that pushed  *)
(* it on that queue (seq), which stands for the element's identity.        *)
(***************************************************************************)
Kinds ==
    { "log_message", "tick_period_millis", "current_time_nanos",
      "get_buffer_bytes", "set_buffer_bytes", "get_header_map_pairs",
      "set_header_map_pairs", "get_header_map_value",
      "replace_header_map_value", "remove_header_map_value",
      "add_header_map_value", "send_local_response", "http_call",
      "metrics_create", "metrics_increment", "metrics_record", "metrics_get" }

\* The queues whose elements hold plain values, never an Option
MetricKinds == {"metrics_create", "metrics_increment", "metrics_record", "metrics_get"}

\* The positions of an element of queue k that hold arguments (the others
\* hold the result to hand back)
ArgPositions(k) ==
    CASE k \in {"tick_period_millis", "get_buffer_bytes", "get_header_map_pairs"} -> {1}
      [] k = "current_time_nanos" -> {}
      [] k \in {"log_message", "set_buffer_bytes", "set_header_map_pairs",
                "get_header_map_value", "remove_header_map_value"} -> {1, 2}
      [] k \in {"replace_header_map_value", "add_header_map_value"} -> {1, 2, 3}
      [] k = "send_local_response" -> {1, 2, 3, 4}
      [] k = "http_call" -> {1, 2, 3, 4, 5}
      [] k \in MetricKinds -> {1, 2}

\* A variant of Expect::new that drops its argument: C8 must notice it
Expect_new_Strict(allow_unexpected) ==
    [ allow_unexpected |-> FALSE,
      expect_count |-> 0,
      log_message |-> << >>,
      tick_period_millis |-> << >>,
      current_time_nanos |-> << >>,
      get_buffer_bytes |-> << >>,
      set_buffer_bytes |-> << >>,
      get_header_map_pairs |-> << >>,
      set_header_map_pairs |-> << >>,
      get_header_map_value |-> << >>,
      replace_header_map_value |-> << >>,
      remove_header_map_value |-> << >>,
      add_header_map_value |-> << >>,
      send_local_response |-> << >>,
      http_call |-> << >>,
      metrics_create |-> << >>,
      metrics_increment |-> << >>,
      metrics_record |-> << >>,
      metrics_get |-> << >> ]

\* Expect::new
Expect_new(allow_unexpected) ==
    [ allow_unexpected |-> allow_unexpected,
      expect_count |-> 0,
      log_message |-> << >>,
      tick_period_millis |-> << >>,
      current_time_nanos |-> << >>,
      get_buffer_bytes |-> << >>,
      set_buffer_bytes |-> << >>,
      get_header_map_pairs |-> << >>,
      set_header_map_pairs |-> << >>,
      get_header_map_value |-> << >>,
      replace_header_map_value |-> << >>,
      remove_header_map_value |-> << >>,
      add_header_map_value |-> << >>,
      send_local_response |-> << >>,
      http_call |-> << >>,
      metrics_create |-> << >>,
      metrics_increment |-> << >>,
      metrics_record |-> << >>,
      metrics_get |-> << >> ]

Entry(n, rec) == [seq |-> n, rec |-> rec]

\* What an index past the end of a Vec yields: no element (the elements'
\* seq start at 1), the thread panics
OutOfBounds == Entry(0, << None, None, None, None, None, None >>)

\* A variant of Vec::push that inserts at the front: C14 must notice it
Vec_push_Front(vec, elem) == << elem >> \o vec

\* Vec::push
Vec_push(vec, elem) == Append(vec, elem)

\* A variant of Vec::remove that takes the last element, as pop() would: C12
\* must notice it
Vec_remove_Last(vec, index) ==
    [elem |-> vec[Len(vec)], vec |-> SubSeq(vec, 1, Len(vec) - 1)]

\* Vec::remove(index): the element at index (from 0) and the vector without
\* it; "Panics if index is out of bounds", which the result shows by holding
\* OutOfBounds
Vec_remove(vec, index) ==
    IF index < Len(vec)
    THEN [ elem |-> vec[index + 1],
           vec |-> SubSeq(vec, 1, index) \o SubSeq(vec, index + 2, Len(vec)) ]
    ELSE [ elem |-> OutOfBounds, vec |-> vec ]

\* vec[index]: the element at index (from 0); panics like Vec::remove(index)
Vec_index(vec, index) == IF index < Len(vec) THEN vec[index + 1] ELSE OutOfBounds

\* Option::map
Option_map(o, F(_)) == IF o = None THEN None ELSE Some(F(o[1]))

\* self.expect_count += 1
Inc(e) == [e EXCEPT !.expect_count = @ + 1]

\* A variant that also clears allow_unexpected: C19 must notice it
Dec_Strict(e) == [e EXCEPT !.expect_count = @ - 1, !.allow_unexpected = FALSE]

\* self.expect_count -= 1
Dec(e) == [e EXCEPT !.expect_count = @ - 1]

\* set_expect_status: the status handed to set_status
set_expect_status(checks) == IF checks THEN "Expected" ELSE "Failed"

\* What a get_expect_* call leaves behind: the structure, the statuses it
\* handed to set_status in order, its return value, and the queue elements
\* (by seq) it read.
Void == [void |-> TRUE, val |-> None]

Returns(o) == [void |-> FALSE, val |-> o]

Outcome(e, status, ret, cmp) ==
    [e |-> e, status |-> status, ret |-> ret, cmp |-> cmp]

\* The call read or removed an element that is not there: it has panicked
\* before its set_status call
Aborted(out) == OutOfBounds.seq \in out.cmp

\* The panic of an index out of bounds
PanicIndex == Some(<< "index out of bounds", 0 >>)

\* A variant of the `0 =>` arm that decrements whatever allow_unexpected
\* says: C5 must notice it
NoRecords_AlwaysDecrements(e, ret) ==
    Outcome(Dec(e), << "Unexpected" >>, ret, {})

\* A variant of the `0 =>` arm without its set_status call: C13 must notice it
NoRecords_Silent(e, ret) ==
    Outcome(IF ~e.allow_unexpected THEN Dec(e) ELSE e, << >>, ret, {})

\* A variant of the `0 =>` arm that reports Expected: C18 must notice it
NoRecords_Expected(e, ret) ==
    Outcome(IF ~e.allow_unexpected THEN Dec(e) ELSE e, << "Expected" >>, ret, {})

\* The `0 =>` arm every get_expect_* function shares (e.g. 131-140)
NoRecords(e, ret) ==
    Outcome(IF ~e.allow_unexpected THEN Dec(e) ELSE e, << "Unexpected" >>, ret, {})

(***************************************************************************)
(* set_expect_* / get_expect_* pairs, one per host call.  n is the seq of  *)
(* the pushed element.                                                     *)
(***************************************************************************)
set_expect_log(e, n, log_level, log_string) ==
    [Inc(e) EXCEPT !.log_message = Vec_push(@, Entry(n, << log_level, log_string >>))]

get_expect_log(e, log_level, log_string) ==
    IF Len(e.log_message) = 0
    THEN NoRecords(e, Void)
    ELSE LET e1 == Dec(e)
             r == Vec_remove(e1.log_message, 0)
             log_tuple == r.elem.rec
             s1 == log_level = unwrap_or(log_tuple[1], log_level)
             s2 == s1 /\ log_string = unwrap_or(log_tuple[2], log_string)
         IN  Outcome([e1 EXCEPT !.log_message = r.vec],
                     << set_expect_status(s2) >>, Void, {r.elem.seq})

set_expect_set_tick_period_millis(e, n, tick_period_millis) ==
    [Inc(e) EXCEPT !.tick_period_millis =
        Vec_push(@, Entry(n, << Option_map(tick_period_millis, Duration_from_millis) >>))]

get_expect_set_tick_period_millis(e, tick_period_millis) ==
    IF Len(e.tick_period_millis) = 0
    THEN NoRecords(e, Void)
    ELSE LET e1 == Dec(e)
             r == Vec_remove(e1.tick_period_millis, 0)
             expect_status ==
                 tick_period_millis
                     = unwrap_or(Option_map(r.elem.rec[1], Duration_as_millis),
                                 tick_period_millis)
         IN  Outcome([e1 EXCEPT !.tick_period_millis = r.vec],
                     << set_expect_status(expect_status) >>, Void, {r.elem.seq})

set_expect_get_current_time_nanos(e, n, current_time_nanos) ==
    [Inc(e) EXCEPT !.current_time_nanos =
        Vec_push(@, Entry(n, << Option_map(current_time_nanos, SystemTime_from_nanos) >>))]

get_expect_get_current_time_nanos(e) ==
    IF Len(e.current_time_nanos) = 0
    THEN NoRecords(e, Returns(None))
    ELSE LET e1 == Dec(e)
             r == Vec_remove(e1.current_time_nanos, 0)
         IN  Outcome([e1 EXCEPT !.current_time_nanos = r.vec],
                     << "Expected" >>,
                     Returns(Option_map(r.elem.rec[1], SystemTime_as_nanos)),
                     {r.elem.seq})

set_expect_get_buffer_bytes(e, n, buffer_type, buffer_data) ==
    [Inc(e) EXCEPT !.get_buffer_bytes =
        Vec_push(@, Entry(n, << buffer_type, Option_map(buffer_data, as_bytes) >>))]

get_expect_get_buffer_bytes(e, buffer_type) ==
    IF Len(e.get_buffer_bytes) = 0
    THEN NoRecords(e, Returns(None))
    ELSE LET e1 == Dec(e)
             front == Vec_index(e1.get_buffer_bytes, 0)
             expect_status == buffer_type = unwrap_or(front.rec[1], buffer_type)
             r == Vec_remove(e1.get_buffer_bytes, 0)
         IN  Outcome([e1 EXCEPT !.get_buffer_bytes = r.vec],
                     << set_expect_status(expect_status) >>,
                     Returns(r.elem.rec[2]), {front.seq, r.elem.seq})

set_expect_set_buffer_bytes(e, n, buffer_type, buffer_data) ==
    [Inc(e) EXCEPT !.set_buffer_bytes =
        Vec_push(@, Entry(n, << buffer_type, Option_map(buffer_data, as_bytes) >>))]

get_expect_set_buffer_bytes(e, buffer_type, buffer_data) ==
    IF Len(e.set_buffer_bytes) = 0
    THEN NoRecords(e, Void)
    ELSE LET e1 == Dec(e)
             r == Vec_remove(e1.set_buffer_bytes, 0)
             expect_buffer == r.elem.rec
             s1 == buffer_type = unwrap_or(expect_buffer[1], buffer_type)
             s2 == s1 /\ buffer_data = unwrap_or(expect_buffer[2], buffer_data)
         IN  Outcome([e1 EXCEPT !.set_buffer_bytes = r.vec],
                     << set_expect_status(s2) >>, Void, {r.elem.seq})

set_expect_get_header_map_pairs(e, n, map_type, header_map_pairs) ==
    [Inc(e) EXCEPT !.get_header_map_pairs =
        Vec_push(@, Entry(n, << map_type, Option_map(header_map_pairs, serialize_map) >>))]

\* A variant that matches on the length of the set_header_map_pairs Vec:
\* C21 must notice it
get_expect_get_header_map_pairs_SiblingLen(e, map_type) ==
    IF Len(e.set_header_map_pairs) = 0
    THEN NoRecords(e, Returns(None))
    ELSE LET e1 == Dec(e)
             front == Vec_index(e1.get_header_map_pairs, 0)
             expect_status == map_type = unwrap_or(front.rec[1], map_type)
             r == Vec_remove(e1.get_header_map_pairs, 0)
         IN  Outcome([e1 EXCEPT !.get_header_map_pairs = r.vec],
                     << set_expect_status(expect_status) >>,
                     Returns(r.elem.rec[2]), {front.seq, r.elem.seq})

get_expect_get_header_map_pairs(e, map_type) ==
    IF Len(e.get_header_map_pairs) = 0
    THEN NoRecords(e, Returns(None))
    ELSE LET e1 == Dec(e)
             front == Vec_index(e1.get_header_map_pairs, 0)
             expect_status == map_type = unwrap_or(front.rec[1], map_type)
             r == Vec_remove(e1.get_header_map_pairs, 0)
         IN  Outcome([e1 EXCEPT !.get_header_map_pairs = r.vec],
                     << set_expect_status(expect_status) >>,
                     Returns(r.elem.rec[2]), {front.seq, r.elem.seq})

set_expect_set_header_map_pairs(e, n, map_type, header_map_pairs) ==
    [Inc(e) EXCEPT !.set_header_map_pairs =
        Vec_push(@, Entry(n, << map_type, Option_map(header_map_pairs, serialize_map) >>))]

\* The second comparison holds the remove(0) and is the right operand of &&
\* (366-372): it is evaluated, and the element removed, only when the
\* map_type comparison passed.
get_expect_set_header_map_pairs(e, map_type, header_map_pairs) ==
    IF Len(e.set_header_map_pairs) = 0
    THEN NoRecords(e, Void)
    ELSE LET e1 == Dec(e)
             front == Vec_index(e1.set_header_map_pairs, 0)
             s1 == map_type = unwrap_or(front.rec[1], map_type)
             r == Vec_remove(e1.set_header_map_pairs, 0)
             s2 == header_map_pairs = unwrap_or(r.elem.rec[2], header_map_pairs)
         IN  IF s1
             THEN Outcome([e1 EXCEPT !.set_header_map_pairs = r.vec],
                          << set_expect_status(s2) >>, Void,
                          {front.seq, r.elem.seq})
             ELSE Outcome(e1, << set_expect_status(FALSE) >>, Void, {front.seq})

set_expect_get_header_map_value(e, n, map_type, header_map_key, header_map_value) ==
    [Inc(e) EXCEPT !.get_header_map_value =
        Vec_push(@, Entry(n, << map_type, header_map_key, header_map_value >>))]

\* A variant that returns the held value only when the comparison succeeds:
\* C16 must notice it
get_expect_get_header_map_value_OnMatch(e, map_type, header_map_key) ==
    IF Len(e.get_header_map_value) = 0
    THEN NoRecords(e, Returns(None))
    ELSE LET e1 == Dec(e)
             r == Vec_remove(e1.get_header_map_value, 0)
             header_map_tuple == r.elem.rec
             s1 == map_type = unwrap_or(header_map_tuple[1], map_type)
             s2 == s1 /\ header_map_key = unwrap_or(header_map_tuple[2], header_map_key)
         IN  Outcome([e1 EXCEPT !.get_header_map_value = r.vec],
                     << set_expect_status(s2) >>,
                     Returns(IF s2 THEN header_map_tuple[3] ELSE None), {r.elem.seq})

get_expect_get_header_map_value(e, map_type, header_map_key) ==
    IF Len(e.get_header_map_value) = 0
    THEN NoRecords(e, Returns(None))
    ELSE LET e1 == Dec(e)
             r == Vec_remove(e1.get_header_map_value, 0)
             header_map_tuple == r.elem.rec
             s1 == map_type = unwrap_or(header_map_tuple[1], map_type)
             s2 == s1 /\ header_map_key = unwrap_or(header_map_tuple[2], header_map_key)
         IN  Outcome([e1 EXCEPT !.get_header_map_value = r.vec],
                     << set_expect_status(s2) >>,
                     Returns(header_map_tuple[3]), {r.elem.seq})

set_expect_replace_header_map_value(e, n, map_type, header_map_key, header_map_value) ==
    [Inc(e) EXCEPT !.replace_header_map_value =
        Vec_push(@, Entry(n, << map_type, header_map_key, header_map_value >>))]

get_expect_replace_header_map_value(e, map_type, header_map_key, header_map_value) ==
    IF Len(e.replace_header_map_value) = 0
    THEN NoRecords(e, Void)
    ELSE LET e1 == Dec(e)
             r == Vec_remove(e1.replace_header_map_value, 0)
             header_map_tuple == r.elem.rec
             s1 == map_type = unwrap_or(header_map_tuple[1], map_type)
             s2 == s1 /\ header_map_key = unwrap_or(header_map_tuple[2], header_map_key)
             s3 == s2 /\ header_map_value
                             = unwrap_or(header_map_tuple[3], header_map_value)
         IN  Outcome([e1 EXCEPT !.replace_header_map_value = r.vec],
                     << set_expect_status(s3) >>, Void, {r.elem.seq})

set_expect_remove_header_map_value(e, n, map_type, header_map_key) ==
    [Inc(e) EXCEPT !.remove_header_map_value =
        Vec_push(@, Entry(n, << map_type, header_map_key >>))]

\* A variant of get_expect_remove_header_map_value that compares the key
\* with the stored Option itself, without unwrap_or: C11 must notice it
get_expect_remove_header_map_value_NoUnwrap(e, map_type, header_map_key) ==
    IF Len(e.remove_header_map_value) = 0
    THEN NoRecords(e, Void)
    ELSE LET e1 == Dec(e)
             r == Vec_remove(e1.remove_header_map_value, 0)
             header_map_tuple == r.elem.rec
             s1 == map_type = unwrap_or(header_map_tuple[1], map_type)
             s2 == s1 /\ Some(header_map_key) = header_map_tuple[2]
         IN  Outcome([e1 EXCEPT !.remove_header_map_value = r.vec],
                     << set_expect_status(s2) >>, Void, {r.elem.seq})

get_expect_remove_header_map_value(e, map_type, header_map_key) ==
    IF Len(e.remove_header_map_value) = 0
    THEN NoRecords(e, Void)
    ELSE LET e1 == Dec(e)
             r == Vec_remove(e1.remove_header_map_value, 0)
             header_map_tuple == r.elem.rec
             s1 == map_type = unwrap_or(header_map_tuple[1], map_type)
             s2 == s1 /\ header_map_key = unwrap_or(header_map_tuple[2], header_map_key)
         IN  Outcome([e1 EXCEPT !.remove_header_map_value = r.vec],
                     << set_expect_status(s2) >>, Void, {r.elem.seq})

set_expect_add_header_map_value(e, n, map_type, header_map_key, header_map_value) ==
    [Inc(e) EXCEPT !.add_header_map_value =
        Vec_push(@, Entry(n, << map_type, header_map_key, header_map_value >>))]

\* A variant whose comparison also wants the replace_header_map_value queue
\* empty: C15 must notice it
get_expect_add_header_map_value_Sibling(e, map_type, header_map_key, header_map_value) ==
    IF Len(e.add_header_map_value) = 0
    THEN NoRecords(e, Void)
    ELSE LET e1 == Dec(e)
             r == Vec_remove(e1.add_header_map_value, 0)
             header_map_tuple == r.elem.rec
             s1 == map_type = unwrap_or(header_map_tuple[1], map_type)
             s2 == s1 /\ header_map_key = unwrap_or(header_map_tuple[2], header_map_key)
             s3 == s2 /\ header_map_value
                             = unwrap_or(header_map_tuple[3], header_map_value)
         IN  Outcome([e1 EXCEPT !.add_header_map_value = r.vec],
                     << set_expect_status(s3 /\ Len(e.replace_header_map_value) = 0) >>,
                     Void, {r.elem.seq})

get_expect_add_header_map_value(e, map_type, header_map_key, header_map_value) ==
    IF Len(e.add_header_map_value) = 0
    THEN NoRecords(e, Void)
    ELSE LET e1 == Dec(e)
             r == Vec_remove(e1.add_header_map_value, 0)
             header_map_tuple == r.elem.rec
             s1 == map_type = unwrap_or(header_map_tuple[1], map_type)
             s2 == s1 /\ header_map_key = unwrap_or(header_map_tuple[2], header_map_key)
             s3 == s2 /\ header_map_value
                             = unwrap_or(header_map_tuple[3], header_map_value)
         IN  Outcome([e1 EXCEPT !.add_header_map_value = r.vec],
                     << set_expect_status(s3) >>, Void, {r.elem.seq})

set_expect_send_local_response(e, n, status_code, body, headers, grpc_status) ==
    [Inc(e) EXCEPT !.send_local_response =
        Vec_push(@, Entry(n, << status_code, body,
                                Option_map(headers, serialize_map), grpc_status >>))]

\* body is an Option<&str> here: an absent body is compared as "default"
get_expect_send_local_response(e, status_code, body, headers, grpc_status) ==
    IF Len(e.send_local_response) = 0
    THEN NoRecords(e, Void)
    ELSE LET e1 == Dec(e)
             r == Vec_remove(e1.send_local_response, 0)
             local_response_tuple == r.elem.rec
             s1 == status_code = unwrap_or(local_response_tuple[1], status_code)
             s2 == s1 /\ unwrap_or(body, "default")
                             = unwrap_or(local_response_tuple[2],
                                         unwrap_or(body, "default"))
             s3 == s2 /\ headers = unwrap_or(local_response_tuple[3], headers)
             s4 == s3 /\ grpc_status = unwrap_or(local_response_tuple[4], grpc_status)
         IN  Outcome([e1 EXCEPT !.send_local_response = r.vec],
                     << set_expect_status(s4) >>, Void, {r.elem.seq})

set_expect_http_call(e, n, upstream, headers, body, trailers, timeout, token_id) ==
    [Inc(e) EXCEPT !.http_call =
        Vec_push(@, Entry(n, << upstream,
                                Option_map(headers, serialize_map),
                                body,
                                Option_map(trailers, serialize_map),
                                Option_map(timeout, Duration_from_millis),
                                token_id >>))]

\* |data| data.as_millis() as i32
AsMillisI32(data) == AsI32(Duration_as_millis(data))

\* A variant that does not compare the trailers: C17 must notice it
get_expect_http_call_NoTrailers(e, upstream, headers, body, trailers, timeout) ==
    IF Len(e.http_call) = 0
    THEN NoRecords(e, Returns(None))
    ELSE LET e1 == Dec(e)
             r == Vec_remove(e1.http_call, 0)
             http_call_tuple == r.elem.rec
             s1 == upstream = unwrap_or(http_call_tuple[1], upstream)
             s2 == s1 /\ headers = unwrap_or(http_call_tuple[2], headers)
             s3 == s2 /\ unwrap_or(body, "default")
                             = unwrap_or(http_call_tuple[3], unwrap_or(body, "default"))
             s5 == s3 /\ timeout
                             = unwrap_or(Option_map(http_call_tuple[5], AsMillisI32),
                                         timeout)
         IN  Outcome([e1 EXCEPT !.http_call = r.vec],
                     << set_expect_status(s5) >>,
                     Returns(http_call_tuple[6]), {r.elem.seq})

get_expect_http_call(e, upstream, headers, body, trailers, timeout) ==
    IF Len(e.http_call) = 0
    THEN NoRecords(e, Returns(None))
    ELSE LET e1 == Dec(e)
             r == Vec_remove(e1.http_call, 0)
             http_call_tuple == r.elem.rec
             s1 == upstream = unwrap_or(http_call_tuple[1], upstream)
             s2 == s1 /\ headers = unwrap_or(http_call_tuple[2], headers)
             s3 == s2 /\ unwrap_or(body, "default")
                             = unwrap_or(http_call_tuple[3], unwrap_or(body, "default"))
             s4 == s3 /\ trailers = unwrap_or(http_call_tuple[4], trailers)
             s5 == s4 /\ timeout
                             = unwrap_or(Option_map(http_call_tuple[5], AsMillisI32),
                                         timeout)
         IN  Outcome([e1 EXCEPT !.http_call = r.vec],
                     << set_expect_status(s5) >>,
                     Returns(http_call_tuple[6]), {r.elem.seq})

set_expect_metric_create(e, n, metric_type, name) ==
    [Inc(e) EXCEPT !.metrics_create = Vec_push(@, Entry(n, << metric_type, name >>))]

get_expect_metric_create(e, metric_type, name) ==
    IF Len(e.metrics_create) = 0
    THEN NoRecords(e, Void)
    ELSE LET e1 == Dec(e)
             r == Vec_remove(e1.metrics_create, 0)
             expected_metric_type == r.elem.rec
             expect_status == expected_metric_type = << metric_type, name >>
         IN  Outcome([e1 EXCEPT !.metrics_create = r.vec],
                     << set_expect_status(expect_status) >>, Void, {r.elem.seq})

set_expect_metric_increment(e, n, metric_id, offset) ==
    [Inc(e) EXCEPT !.metrics_increment = Vec_push(@, Entry(n, << metric_id, offset >>))]

get_expect_metric_increment(e, metric_id, offset) ==
    IF Len(e.metrics_increment) = 0
    THEN NoRecords(e, Void)
    ELSE LET e1 == Dec(e)
             r == Vec_remove(e1.metrics_increment, 0)
             expected_metric_increment_tuple == r.elem.rec
             expect_status == expected_metric_increment_tuple = << metric_id, offset >>
         IN  Outcome([e1 EXCEPT !.metrics_increment = r.vec],
                     << set_expect_status(expect_status) >>, Void, {r.elem.seq})

set_expect_metric_record(e, n, metric_id, value) ==
    [Inc(e) EXCEPT !.metrics_record = Vec_push(@, Entry(n, << metric_id, value >>))]

get_expect_metric_record(e, metric_id, value) ==
    IF Len(e.metrics_record) = 0
    THEN NoRecords(e, Void)
    ELSE LET e1 == Dec(e)
             r == Vec_remove(e1.metrics_record, 0)
             expected_metric_record_tuple == r.elem.rec
             expect_status == expected_metric_record_tuple = << metric_id, value >>
         IN  Outcome([e1 EXCEPT !.metrics_record = r.vec],
                     << set_expect_status(expect_status) >>, Void, {r.elem.seq})

set_expect_metric_get(e, n, metric_id, value) ==
    [Inc(e) EXCEPT !.metrics_get = Vec_push(@, Entry(n, << metric_id, value >>))]

get_expect_metric_get(e, metric_id, value) ==
    IF Len(e.metrics_get) = 0
    THEN NoRecords(e, Void)
    ELSE LET e1 == Dec(e)
             r == Vec_remove(e1.metrics_get, 0)
             expected_get_metric_tuple == r.elem.rec
             expect_status == expected_get_metric_tuple = << metric_id, value >>
         IN  Outcome([e1 EXCEPT !.metrics_get = r.vec],
                     << set_expect_status(expect_status) >>, Void, {r.elem.seq})

(***************************************************************************)
(* Inputs.  Exp* are the argument tuples of the set_expect_* calls, Act*   *)
(* those of the get_expect_* calls.  The Small sets drive the exploration  *)
(* of call sequences, the Rich sets that of single comparisons.            *)
(***************************************************************************)
I32s == {1, 2}

Strs == {"a", "b"}

Bodies == {"a", "default"}

Maps ==
    { << << "k", "v" >>, << "x", "y" >> >>,
      << << "x", "y" >>, << "k", "v" >> >>,
      << << "k", "v" >> >> }

MapBytes == { serialize_map(m) : m \in Maps }

\* 500, 2^16 + 500
TickU64s == { U64(500), << 0, 0, 1, 500 >> }

\* 500, 2^16 + 500, 2^64 + 500
TickU128s == { U128(500), << 0, 0, 0, 0, 0, 0, 1, 500 >>, << 0, 0, 0, 1, 0, 0, 0, 500 >> }

\* 7, 10^9 + 7 and u64::MAX nanoseconds
TimeU64s == { U64(7), << 0, 0, 15258, 51719 >>, << 65535, 65535, 65535, 65535 >> }

\* 5, 2^32 + 5 and 2^32 - 1 milliseconds
TimeoutU64s == { U64(5), << 0, 1, 0, 5 >>, << 0, 0, 65535, 65535 >> }

TimeoutI32s == {5, 6, -1}

TokenIds == {7}

MetricU64s == { U64(1), U64(2) }

MetricI64s == {-1, 1}

RichExp(k) ==
    CASE k = "log_message" -> Opt(I32s) \X Opt(Strs)
      [] k = "tick_period_millis" -> { << t >> : t \in Opt(TickU64s) }
      [] k = "current_time_nanos" -> { << t >> : t \in Opt(TimeU64s) }
      [] k \in {"get_buffer_bytes", "set_buffer_bytes"} -> Opt(I32s) \X Opt(Strs)
      [] k \in {"get_header_map_pairs", "set_header_map_pairs"} -> Opt(I32s) \X Opt(Maps)
      [] k \in {"get_header_map_value", "replace_header_map_value",
                "add_header_map_value"} -> Opt(I32s) \X Opt(Strs) \X Opt(Strs)
      [] k = "remove_header_map_value" -> Opt(I32s) \X Opt(Strs)
      [] k = "send_local_response" ->
            Opt(I32s) \X Opt(Bodies) \X Opt(Maps) \X Opt(I32s)
      [] k = "http_call" ->
            Opt(Strs) \X Opt(Maps) \X Opt(Bodies) \X Opt(Maps)
                \X Opt(TimeoutU64s) \X Opt(TokenIds)
      [] k = "metrics_create" -> I32s \X Strs
      [] k = "metrics_increment" -> I32s \X MetricI64s
      [] k \in {"metrics_record", "metrics_get"} -> I32s \X MetricU64s

RichAct(k) ==
    CASE k = "log_message" -> I32s \X Strs
      [] k = "tick_period_millis" -> { << t >> : t \in TickU128s }
      [] k = "current_time_nanos" -> { << >> }
      [] k \in {"get_buffer_bytes", "get_header_map_pairs"} -> { << t >> : t \in I32s }
      [] k = "set_buffer_bytes" -> I32s \X { as_bytes(d) : d \in Strs }
      [] k = "set_header_map_pairs" -> I32s \X MapBytes
      [] k \in {"get_header_map_value", "remove_header_map_value"} -> I32s \X Strs
      [] k \in {"replace_header_map_value", "add_header_map_value"} ->
            I32s \X Strs \X Strs
      [] k = "send_local_response" -> I32s \X Opt(Bodies) \X MapBytes \X I32s
      [] k = "http_call" -> Strs \X MapBytes \X Opt(Bodies) \X MapBytes \X TimeoutI32s
      [] k = "metrics_create" -> I32s \X Strs
      [] k = "metrics_increment" -> I32s \X MetricI64s
      [] k \in {"metrics_record", "metrics_get"} -> I32s \X MetricU64s

\* The first map of Maps and its encoding
Map1 == << << "k", "v" >>, << "x", "y" >> >>

Map2 == << << "x", "y" >>, << "k", "v" >> >>

\* Per kind: one expectation with every Option present (the metrics take no
\* Option) and, for three of the kinds, one with every Option absent.
SmallExpOf(k) ==
    CASE k = "log_message" -> { << None, None >>, << Some(1), Some("a") >> }
      [] k = "tick_period_millis" -> { << Some(U64(500)) >> }
      [] k = "current_time_nanos" -> { << Some(U64(7)) >> }
      [] k \in {"get_buffer_bytes", "set_buffer_bytes"} -> { << Some(1), Some("a") >> }
      [] k = "get_header_map_pairs" -> { << Some(1), Some(Map1) >> }
      [] k = "set_header_map_pairs" -> { << None, None >>, << Some(1), Some(Map1) >> }
      [] k = "get_header_map_value" ->
            { << None, None, None >>, << Some(1), Some("a"), Some("b") >> }
      [] k \in {"replace_header_map_value", "add_header_map_value"} ->
            { << Some(1), Some("a"), Some("b") >> }
      [] k = "remove_header_map_value" -> { << Some(1), Some("a") >> }
      [] k = "send_local_response" ->
            { << Some(1), Some("a"), Some(Map1), Some(2) >> }
      [] k = "http_call" ->
            { << Some("a"), Some(Map1), Some("a"), Some(Map2), Some(U64(5)), Some(7) >> }
      [] k = "metrics_create" -> { << 1, "a" >> }
      [] k = "metrics_increment" -> { << 1, 1 >> }
      [] k \in {"metrics_record", "metrics_get"} -> { << 1, U64(1) >> }

SmallExpTab == [k \in Kinds |-> SmallExpOf(k)]

SmallExp(k) == SmallExpTab[k]

\* Per kind: the arguments that match the expectation above and arguments
\* that differ from it in the first position (and, for set_header_map_pairs,
\* in the second only).
SmallActOf(k) ==
    CASE k = "log_message" -> { << 1, "a" >>, << 2, "a" >> }
      [] k = "tick_period_millis" -> { << U128(500) >>, << U128(501) >> }
      [] k = "current_time_nanos" -> { << >> }
      [] k \in {"get_buffer_bytes", "get_header_map_pairs"} -> { << 1 >>, << 2 >> }
      [] k = "set_buffer_bytes" -> { << 1, as_bytes("a") >>, << 2, as_bytes("a") >> }
      [] k = "set_header_map_pairs" ->
            { << 1, serialize_map(Map1) >>, << 2, serialize_map(Map1) >>,
              << 1, serialize_map(Map2) >> }
      [] k \in {"get_header_map_value", "remove_header_map_value"} ->
            { << 1, "a" >>, << 2, "a" >> }
      [] k \in {"replace_header_map_value", "add_header_map_value"} ->
            { << 1, "a", "b" >>, << 2, "a", "b" >> }
      [] k = "send_local_response" ->
            { << 1, Some("a"), serialize_map(Map1), 2 >>,
              << 2, Some("a"), serialize_map(Map1), 2 >> }
      [] k = "http_call" ->
            { << "a", serialize_map(Map1), Some("a"), serialize_map(Map2), 5 >>,
              << "b", serialize_map(Map1), Some("a"), serialize_map(Map2), 5 >> }
      [] k = "metrics_create" -> { << 1, "a" >>, << 2, "a" >> }
      [] k = "metrics_increment" -> { << 1, 1 >>, << 2, 1 >> }
      [] k \in {"metrics_record", "metrics_get"} -> { << 1, U64(1) >>, << 2, U64(1) >> }


SmallActTab == [k \in Kinds |-> SmallActOf(k)]

SmallOneTab == [k \in Kinds |-> CHOOSE a \in SmallActTab[k] : TRUE]

(***************************************************************************)
(* What it means for the actual arguments of a get_expect_* call to agree  *)
(* with an element: the yardstick the properties hold the comparisons of   *)
(* the get_expect_* functions against.                                     *)
(***************************************************************************)
\* The position holds no concrete value, or holds the actual argument x
Pos(o, x) == o = None \/ o[1] = x

\* The same for a body, where the actual argument is itself an Option
PosBody(o, body) == o = None \/ body = o

\* t: i32 as a u64, for t >= 0
I32AsU64(t) == << 0, 0, t \div LimbBase, t % LimbBase >>

\* The same for a Duration pushed from a u64 of milliseconds, against an
\* actual u128 (the tick period) or an actual i32 (the timeout)
PosMillisU128(o, x) ==
    o = None \/ \E ms \in TickU64s :
                    o[1] = Duration_from_millis(ms) /\ WidenU128(ms) = x

PosMillisI32(o, t) ==
    o = None \/ \E ms \in TimeoutU64s :
                    o[1] = Duration_from_millis(ms) /\ t >= 0 /\ ms = I32AsU64(t)

\* Every argument position at which the element rec of queue k holds a
\* concrete value equals the corresponding actual argument of a
Agrees(k, rec, a) ==
    CASE k \in {"log_message", "set_buffer_bytes", "set_header_map_pairs",
                "get_header_map_value", "remove_header_map_value"} ->
            Pos(rec[1], a[1]) /\ Pos(rec[2], a[2])
      [] k = "tick_period_millis" -> PosMillisU128(rec[1], a[1])
      [] k = "current_time_nanos" -> TRUE
      [] k \in {"get_buffer_bytes", "get_header_map_pairs"} -> Pos(rec[1], a[1])
      [] k \in {"replace_header_map_value", "add_header_map_value"} ->
            Pos(rec[1], a[1]) /\ Pos(rec[2], a[2]) /\ Pos(rec[3], a[3])
      [] k = "send_local_response" ->
            /\ Pos(rec[1], a[1])
            /\ PosBody(rec[2], a[2])
            /\ Pos(rec[3], a[3])
            /\ Pos(rec[4], a[4])
      [] k = "http_call" ->
            /\ Pos(rec[1], a[1])
            /\ Pos(rec[2], a[2])
            /\ PosBody(rec[3], a[3])
            /\ Pos(rec[4], a[4])
            /\ PosMillisI32(rec[5], a[5])
      [] k \in {"metrics_create", "metrics_increment", "metrics_record",
                "metrics_get"} ->
            rec[1] = a[1] /\ rec[2] = a[2]

(***************************************************************************)
(* State.                                                                  *)
(*   staged    ExpectHandle.staged                                         *)
(*   status    the statuses the latest call handed to set_status, in order *)
(*   ret       what the latest call returned                               *)
(*   panic     Some(<<message, count>>) once assert_stage has panicked     *)
(*   last      the latest call: which family of functions it belongs to,   *)
(*             and expect_count, the number of queued elements and, for a  *)
(*             set_expect_* or get_expect_* call, the length of its own    *)
(*             queue, all as the call found them                           *)
(*   hist      bookkeeping since the staged structure was created: per     *)
(*             queue the number of set_expect_* calls (enq) and, for each  *)
(*             get_expect_* call that read an element, the set of seq it   *)
(*             read (cmp); the number of get_expect_* calls (calls), of    *)
(*             elements that left a queue (removed) and of get_expect_*    *)
(*             calls that found their queue empty with allow_unexpected    *)
(*             false (penalties)                                           *)
(*   obs       when switched on (on), a closer record of the latest        *)
(*             set_expect_* or get_expect_* call: its queue (kind), its    *)
(*             arguments (args), the element a get_expect_* call found at  *)
(*             the front (front), and the progress of a run of pushes on   *)
(*             one queue followed by agreeing calls on it (run)            *)
(***************************************************************************)
VARIABLES staged, status, ret, panic, last, hist, obs

vars == << staged, status, ret, panic, last, hist, obs >>

\* The number of elements held by all queues of e
QueueLen(e) ==
    Len(e.log_message) + Len(e.tick_period_millis) + Len(e.current_time_nanos)
    + Len(e.get_buffer_bytes) + Len(e.set_buffer_bytes) + Len(e.get_header_map_pairs)
    + Len(e.set_header_map_pairs) + Len(e.get_header_map_value)
    + Len(e.replace_header_map_value) + Len(e.remove_header_map_value)
    + Len(e.add_header_map_value) + Len(e.send_local_response) + Len(e.http_call)
    + Len(e.metrics_create) + Len(e.metrics_increment) + Len(e.metrics_record)
    + Len(e.metrics_get)

Enqueued ==
    LET n == hist.enq
    IN  n.log_message + n.tick_period_millis + n.current_time_nanos
        + n.get_buffer_bytes + n.set_buffer_bytes + n.get_header_map_pairs
        + n.set_header_map_pairs + n.get_header_map_value
        + n.replace_header_map_value + n.remove_header_map_value
        + n.add_header_map_value + n.send_local_response + n.http_call
        + n.metrics_create + n.metrics_increment + n.metrics_record + n.metrics_get

HistInit ==
    [ enq |-> [k \in Kinds |-> 0], cmp |-> [k \in Kinds |-> << >>],
      calls |-> 0, removed |-> 0, penalties |-> 0 ]

NextSeq(k) == hist.enq[k] + 1

Latest(op, found) ==
    [ op |-> op, count |-> staged.expect_count, queued |-> QueueLen(staged),
      found |-> found ]

\* A run: set_expect_* calls on one queue k that was empty (recs, the
\* elements pushed; base, expect_count as the first found it), then
\* get_expect_* calls on k, the i-th with arguments agreeing with the i-th
\* element pushed (m, how many so far).  st is "idle" before any push, "enq"
\* while pushing, "deq" while calling and "dead" once another set_expect_*
\* or get_expect_* call came between.
RunIdle == [st |-> "idle", k |-> "", recs |-> << >>, m |-> 0, base |-> 0]

RunDead == [st |-> "dead", k |-> "", recs |-> << >>, m |-> 0, base |-> 0]

RunPush(k, entry) ==
    LET run == obs.run
    IN  IF run.st = "enq" /\ run.k = k
        THEN [run EXCEPT !.recs = Append(@, entry)]
        ELSE IF run.st = "idle" /\ Len(staged[k]) = 0
             THEN [st |-> "enq", k |-> k, recs |-> << entry >>, m |-> 0,
                   base |-> staged.expect_count]
             ELSE RunDead

RunCall(k, a) ==
    LET run == obs.run
    IN  IF run.st = "idle"
        THEN run
        ELSE IF /\ run.st \in {"enq", "deq"}
                /\ run.k = k
                /\ run.m < Len(run.recs)
                /\ Agrees(k, run.recs[run.m + 1].rec, a)
             THEN [run EXCEPT !.st = "deq", !.m = @ + 1]
             ELSE RunDead

ObsOff == [on |-> FALSE, kind |-> "", args |-> << >>, front |-> None, run |-> RunIdle]

ObsOn == [on |-> TRUE, kind |-> "", args |-> << >>, front |-> None, run |-> RunIdle]

Observe(k, a, front, run) ==
    IF obs.on
    THEN [on |-> TRUE, kind |-> k, args |-> a, front |-> front, run |-> run]
    ELSE obs

\* A variant of ExpectHandle::new that stages Expect::new(true): C26 must
\* notice it
Init_Lenient ==
    /\ staged = Expect_new(TRUE)
    /\ status = << >>
    /\ ret = Void
    /\ panic = None
    /\ last = [op |-> "new", count |-> 0, queued |-> 0, found |-> 0]
    /\ hist = HistInit
    /\ obs = ObsOff

\* ExpectHandle::new
Init ==
    /\ staged = Expect_new(FALSE)
    /\ status = << >>
    /\ ret = Void
    /\ panic = None
    /\ last = [op |-> "new", count |-> 0, queued |-> 0, found |-> 0]
    /\ hist = HistInit
    /\ obs = ObsOff

\* ExpectHandle::new, with obs switched on
InitObs ==
    /\ staged = Expect_new(FALSE)
    /\ status = << >>
    /\ ret = Void
    /\ panic = None
    /\ last = [op |-> "new", count |-> 0, queued |-> 0, found |-> 0]
    /\ hist = HistInit
    /\ obs = ObsOn

\* A set_expect_* call on queue k that leaves the structure e2
Enq(k, a, e2) ==
    /\ panic = None
    /\ last' = Latest("set_expect", Len(staged[k]))
    /\ obs' = Observe(k, a, None, RunPush(k, e2[k][Len(e2[k])]))
    /\ staged' = e2
    /\ status' = << >>
    /\ ret' = Void
    /\ panic' = panic
    /\ hist' = [hist EXCEPT !.enq[k] = @ + 1]

\* A get_expect_* call on queue k with outcome out
Call(k, a, out) ==
    /\ panic = None
    /\ last' = Latest("get_expect", Len(staged[k]))
    /\ obs' = Observe(k, a, IF Len(staged[k]) = 0 THEN None ELSE Some(staged[k][1]),
                      RunCall(k, a))
    /\ staged' = out.e
    /\ status' = IF Aborted(out) THEN << >> ELSE out.status
    /\ ret' = IF Aborted(out) THEN Void ELSE out.ret
    /\ panic' = IF Aborted(out) THEN PanicIndex ELSE panic
    /\ hist' = [hist EXCEPT
                  !.calls = @ + 1,
                  !.cmp[k] = IF out.cmp = {} THEN @ ELSE Append(@, out.cmp),
                  !.removed = @ + (QueueLen(staged) - QueueLen(out.e)),
                  !.penalties = IF Len(staged[k]) = 0 /\ ~staged.allow_unexpected
                                THEN @ + 1 ELSE @]

(***************************************************************************)
(* Actions: one per function of Expect and of ExpectHandle; a is the tuple *)
(* of the call's arguments.                                                *)
(***************************************************************************)
SetExpectLog(a) ==
    Enq("log_message", a, set_expect_log(staged, NextSeq("log_message"), a[1], a[2]))

GetExpectLog(a) ==
    Call("log_message", a, get_expect_log(staged, a[1], a[2]))

SetExpectSetTickPeriodMillis(a) ==
    Enq("tick_period_millis", a, set_expect_set_tick_period_millis(staged, NextSeq("tick_period_millis"), a[1]))

GetExpectSetTickPeriodMillis(a) ==
    Call("tick_period_millis", a, get_expect_set_tick_period_millis(staged, a[1]))

SetExpectGetCurrentTimeNanos(a) ==
    Enq("current_time_nanos", a, set_expect_get_current_time_nanos(staged, NextSeq("current_time_nanos"), a[1]))

GetExpectGetCurrentTimeNanos(a) ==
    Call("current_time_nanos", a, get_expect_get_current_time_nanos(staged))

SetExpectGetBufferBytes(a) ==
    Enq("get_buffer_bytes", a, set_expect_get_buffer_bytes(staged, NextSeq("get_buffer_bytes"), a[1], a[2]))

GetExpectGetBufferBytes(a) ==
    Call("get_buffer_bytes", a, get_expect_get_buffer_bytes(staged, a[1]))

SetExpectSetBufferBytes(a) ==
    Enq("set_buffer_bytes", a, set_expect_set_buffer_bytes(staged, NextSeq("set_buffer_bytes"), a[1], a[2]))

GetExpectSetBufferBytes(a) ==
    Call("set_buffer_bytes", a, get_expect_set_buffer_bytes(staged, a[1], a[2]))

SetExpectGetHeaderMapPairs(a) ==
    Enq("get_header_map_pairs", a, set_expect_get_header_map_pairs(staged, NextSeq("get_header_map_pairs"), a[1], a[2]))

GetExpectGetHeaderMapPairs(a) ==
    Call("get_header_map_pairs", a, get_expect_get_header_map_pairs(staged, a[1]))

SetExpectSetHeaderMapPairs(a) ==
    Enq("set_header_map_pairs", a, set_expect_set_header_map_pairs(staged, NextSeq("set_header_map_pairs"), a[1], a[2]))

GetExpectSetHeaderMapPairs(a) ==
    Call("set_header_map_pairs", a, get_expect_set_header_map_pairs(staged, a[1], a[2]))

SetExpectGetHeaderMapValue(a) ==
    Enq("get_header_map_value", a, set_expect_get_header_map_value(staged, NextSeq("get_header_map_value"), a[1], a[2], a[3]))

GetExpectGetHeaderMapValue(a) ==
    Call("get_header_map_value", a, get_expect_get_header_map_value(staged, a[1], a[2]))

SetExpectReplaceHeaderMapValue(a) ==
    Enq("replace_header_map_value", a, set_expect_replace_header_map_value(staged, NextSeq("replace_header_map_value"), a[1], a[2], a[3]))

GetExpectReplaceHeaderMapValue(a) ==
    Call("replace_header_map_value", a, get_expect_replace_header_map_value(staged, a[1], a[2], a[3]))

SetExpectRemoveHeaderMapValue(a) ==
    Enq("remove_header_map_value", a, set_expect_remove_header_map_value(staged, NextSeq("remove_header_map_value"), a[1], a[2]))

GetExpectRemoveHeaderMapValue(a) ==
    Call("remove_header_map_value", a, get_expect_remove_header_map_value(staged, a[1], a[2]))

SetExpectAddHeaderMapValue(a) ==
    Enq("add_header_map_value", a, set_expect_add_header_map_value(staged, NextSeq("add_header_map_value"), a[1], a[2], a[3]))

GetExpectAddHeaderMapValue(a) ==
    Call("add_header_map_value", a, get_expect_add_header_map_value(staged, a[1], a[2], a[3]))

SetExpectSendLocalResponse(a) ==
    Enq("send_local_response", a, set_expect_send_local_response(staged, NextSeq("send_local_response"), a[1], a[2], a[3], a[4]))

GetExpectSendLocalResponse(a) ==
    Call("send_local_response", a, get_expect_send_local_response(staged, a[1], a[2], a[3], a[4]))

SetExpectHttpCall(a) ==
    Enq("http_call", a, set_expect_http_call(staged, NextSeq("http_call"), a[1], a[2], a[3], a[4], a[5], a[6]))

GetExpectHttpCall(a) ==
    Call("http_call", a, get_expect_http_call(staged, a[1], a[2], a[3], a[4], a[5]))

SetExpectMetricCreate(a) ==
    Enq("metrics_create", a, set_expect_metric_create(staged, NextSeq("metrics_create"), a[1], a[2]))

GetExpectMetricCreate(a) ==
    Call("metrics_create", a, get_expect_metric_create(staged, a[1], a[2]))

SetExpectMetricIncrement(a) ==
    Enq("metrics_increment", a, set_expect_metric_increment(staged, NextSeq("metrics_increment"), a[1], a[2]))

GetExpectMetricIncrement(a) ==
    Call("metrics_increment", a, get_expect_metric_increment(staged, a[1], a[2]))

SetExpectMetricRecord(a) ==
    Enq("metrics_record", a, set_expect_metric_record(staged, NextSeq("metrics_record"), a[1], a[2]))

GetExpectMetricRecord(a) ==
    Call("metrics_record", a, get_expect_metric_record(staged, a[1], a[2]))

SetExpectMetricGet(a) ==
    Enq("metrics_get", a, set_expect_metric_get(staged, NextSeq("metrics_get"), a[1], a[2]))

GetExpectMetricGet(a) ==
    Call("metrics_get", a, get_expect_metric_get(staged, a[1], a[2]))

\* The set_expect_* call for queue k
SetExpect(k, a) ==
    CASE
         k = "log_message" -> SetExpectLog(a)
      [] k = "tick_period_millis" -> SetExpectSetTickPeriodMillis(a)
      [] k = "current_time_nanos" -> SetExpectGetCurrentTimeNanos(a)
      [] k = "get_buffer_bytes" -> SetExpectGetBufferBytes(a)
      [] k = "set_buffer_bytes" -> SetExpectSetBufferBytes(a)
      [] k = "get_header_map_pairs" -> SetExpectGetHeaderMapPairs(a)
      [] k = "set_header_map_pairs" -> SetExpectSetHeaderMapPairs(a)
      [] k = "get_header_map_value" -> SetExpectGetHeaderMapValue(a)
      [] k = "replace_header_map_value" -> SetExpectReplaceHeaderMapValue(a)
      [] k = "remove_header_map_value" -> SetExpectRemoveHeaderMapValue(a)
      [] k = "add_header_map_value" -> SetExpectAddHeaderMapValue(a)
      [] k = "send_local_response" -> SetExpectSendLocalResponse(a)
      [] k = "http_call" -> SetExpectHttpCall(a)
      [] k = "metrics_create" -> SetExpectMetricCreate(a)
      [] k = "metrics_increment" -> SetExpectMetricIncrement(a)
      [] k = "metrics_record" -> SetExpectMetricRecord(a)
      [] k = "metrics_get" -> SetExpectMetricGet(a)

\* The get_expect_* call for queue k
GetExpect(k, a) ==
    CASE
         k = "log_message" -> GetExpectLog(a)
      [] k = "tick_period_millis" -> GetExpectSetTickPeriodMillis(a)
      [] k = "current_time_nanos" -> GetExpectGetCurrentTimeNanos(a)
      [] k = "get_buffer_bytes" -> GetExpectGetBufferBytes(a)
      [] k = "set_buffer_bytes" -> GetExpectSetBufferBytes(a)
      [] k = "get_header_map_pairs" -> GetExpectGetHeaderMapPairs(a)
      [] k = "set_header_map_pairs" -> GetExpectSetHeaderMapPairs(a)
      [] k = "get_header_map_value" -> GetExpectGetHeaderMapValue(a)
      [] k = "replace_header_map_value" -> GetExpectReplaceHeaderMapValue(a)
      [] k = "remove_header_map_value" -> GetExpectRemoveHeaderMapValue(a)
      [] k = "add_header_map_value" -> GetExpectAddHeaderMapValue(a)
      [] k = "send_local_response" -> GetExpectSendLocalResponse(a)
      [] k = "http_call" -> GetExpectHttpCall(a)
      [] k = "metrics_create" -> GetExpectMetricCreate(a)
      [] k = "metrics_increment" -> GetExpectMetricIncrement(a)
      [] k = "metrics_record" -> GetExpectMetricRecord(a)
      [] k = "metrics_get" -> GetExpectMetricGet(a)

\* The get_expect_* function for queue k, on the structure e
get_expect(k, e, a) ==
    CASE
         k = "log_message" -> get_expect_log(e, a[1], a[2])
      [] k = "tick_period_millis" -> get_expect_set_tick_period_millis(e, a[1])
      [] k = "current_time_nanos" -> get_expect_get_current_time_nanos(e)
      [] k = "get_buffer_bytes" -> get_expect_get_buffer_bytes(e, a[1])
      [] k = "set_buffer_bytes" -> get_expect_set_buffer_bytes(e, a[1], a[2])
      [] k = "get_header_map_pairs" -> get_expect_get_header_map_pairs(e, a[1])
      [] k = "set_header_map_pairs" -> get_expect_set_header_map_pairs(e, a[1], a[2])
      [] k = "get_header_map_value" -> get_expect_get_header_map_value(e, a[1], a[2])
      [] k = "replace_header_map_value" -> get_expect_replace_header_map_value(e, a[1], a[2], a[3])
      [] k = "remove_header_map_value" -> get_expect_remove_header_map_value(e, a[1], a[2])
      [] k = "add_header_map_value" -> get_expect_add_header_map_value(e, a[1], a[2], a[3])
      [] k = "send_local_response" -> get_expect_send_local_response(e, a[1], a[2], a[3], a[4])
      [] k = "http_call" -> get_expect_http_call(e, a[1], a[2], a[3], a[4], a[5])
      [] k = "metrics_create" -> get_expect_metric_create(e, a[1], a[2])
      [] k = "metrics_increment" -> get_expect_metric_increment(e, a[1], a[2])
      [] k = "metrics_record" -> get_expect_metric_record(e, a[1], a[2])
      [] k = "metrics_get" -> get_expect_metric_get(e, a[1], a[2])

\* ExpectHandle::update_stage
UpdateStage(allow_unexpected) ==
    /\ panic = None
    /\ last' = Latest("update_stage", 0)
    /\ obs' = Observe("", << >>, None, RunIdle)
    /\ staged' = Expect_new(allow_unexpected)
    /\ status' = << >>
    /\ ret' = Void
    /\ panic' = panic
    /\ hist' = HistInit

\* panic!("Error: failed to consume all expectations - total remaining: {}", n)
PanicRemaining(n) == Some(<< "failed to consume all expectations", n >>)

\* panic!("Error: expectations failed to account for all host calls by {} ...", n)
PanicUnaccounted(n) == Some(<< "failed to account for all host calls", n >>)

\* A variant of assert_stage without the `< 0` arm: C7 must notice it
assert_stage_RemainingOnly(e) ==
    IF e.expect_count > 0
    THEN PanicRemaining(e.expect_count)
    ELSE None

\* The panic of assert_stage on the structure e, None when it returns
assert_stage(e) ==
    IF e.expect_count > 0
    THEN PanicRemaining(e.expect_count)
    ELSE IF e.expect_count < 0
         THEN PanicUnaccounted(-1 * e.expect_count)
         ELSE None

\* A variant of assert_stage's caller that empties the structure once the
\* check has passed: C20 must notice it
AssertStage_Clears ==
    /\ panic = None
    /\ panic' = assert_stage(staged)
    /\ status' = << >>
    /\ ret' = Void
    /\ last' = Latest("assert_stage", 0)
    /\ obs' = Observe("", << >>, None, obs.run)
    /\ staged' = IF assert_stage(staged) = None
                 THEN Expect_new(staged.allow_unexpected)
                 ELSE staged
    /\ UNCHANGED hist

\* ExpectHandle::assert_stage
AssertStage ==
    /\ panic = None
    /\ panic' = assert_stage(staged)
    /\ status' = << >>
    /\ ret' = Void
    /\ last' = Latest("assert_stage", 0)
    /\ obs' = Observe("", << >>, None, obs.run)
    /\ UNCHANGED << staged, hist >>

\* ExpectHandle::print_staged
PrintStaged ==
    /\ panic = None
    /\ status' = << >>
    /\ ret' = Void
    /\ last' = Latest("print_staged", 0)
    /\ obs' = Observe("", << >>, None, obs.run)
    /\ UNCHANGED << staged, panic, hist >>

\* The actual arguments tried on queue k.  The `0 =>` arm of a get_expect_*
\* function reads none of its arguments, so one tuple stands for them all
\* while the queue is empty.
SmallAct(k) == IF Len(staged[k]) = 0 THEN { SmallOneTab[k] } ELSE SmallActTab[k]

\* Sequences of calls on the staged structure, over the Small inputs: at
\* most MaxEnqueue set_expect_* and MaxCalls get_expect_* calls on each
CanEnqueue == Enqueued < MaxEnqueue

CanCall == hist.calls < MaxCalls

Next ==
    \/ CanEnqueue /\ \E a \in SmallExp("log_message") : SetExpectLog(a)
    \/ CanEnqueue /\ \E a \in SmallExp("tick_period_millis") : SetExpectSetTickPeriodMillis(a)
    \/ CanEnqueue /\ \E a \in SmallExp("current_time_nanos") : SetExpectGetCurrentTimeNanos(a)
    \/ CanEnqueue /\ \E a \in SmallExp("get_buffer_bytes") : SetExpectGetBufferBytes(a)
    \/ CanEnqueue /\ \E a \in SmallExp("set_buffer_bytes") : SetExpectSetBufferBytes(a)
    \/ CanEnqueue /\ \E a \in SmallExp("get_header_map_pairs") : SetExpectGetHeaderMapPairs(a)
    \/ CanEnqueue /\ \E a \in SmallExp("set_header_map_pairs") : SetExpectSetHeaderMapPairs(a)
    \/ CanEnqueue /\ \E a \in SmallExp("get_header_map_value") : SetExpectGetHeaderMapValue(a)
    \/ CanEnqueue /\ \E a \in SmallExp("replace_header_map_value") : SetExpectReplaceHeaderMapValue(a)
    \/ CanEnqueue /\ \E a \in SmallExp("remove_header_map_value") : SetExpectRemoveHeaderMapValue(a)
    \/ CanEnqueue /\ \E a \in SmallExp("add_header_map_value") : SetExpectAddHeaderMapValue(a)
    \/ CanEnqueue /\ \E a \in SmallExp("send_local_response") : SetExpectSendLocalResponse(a)
    \/ CanEnqueue /\ \E a \in SmallExp("http_call") : SetExpectHttpCall(a)
    \/ CanEnqueue /\ \E a \in SmallExp("metrics_create") : SetExpectMetricCreate(a)
    \/ CanEnqueue /\ \E a \in SmallExp("metrics_increment") : SetExpectMetricIncrement(a)
    \/ CanEnqueue /\ \E a \in SmallExp("metrics_record") : SetExpectMetricRecord(a)
    \/ CanEnqueue /\ \E a \in SmallExp("metrics_get") : SetExpectMetricGet(a)
    \/ CanCall /\ \E a \in SmallAct("log_message") : GetExpectLog(a)
    \/ CanCall /\ \E a \in SmallAct("tick_period_millis") : GetExpectSetTickPeriodMillis(a)
    \/ CanCall /\ \E a \in SmallAct("current_time_nanos") : GetExpectGetCurrentTimeNanos(a)
    \/ CanCall /\ \E a \in SmallAct("get_buffer_bytes") : GetExpectGetBufferBytes(a)
    \/ CanCall /\ \E a \in SmallAct("set_buffer_bytes") : GetExpectSetBufferBytes(a)
    \/ CanCall /\ \E a \in SmallAct("get_header_map_pairs") : GetExpectGetHeaderMapPairs(a)
    \/ CanCall /\ \E a \in SmallAct("set_header_map_pairs") : GetExpectSetHeaderMapPairs(a)
    \/ CanCall /\ \E a \in SmallAct("get_header_map_value") : GetExpectGetHeaderMapValue(a)
    \/ CanCall /\ \E a \in SmallAct("replace_header_map_value") : GetExpectReplaceHeaderMapValue(a)
    \/ CanCall /\ \E a \in SmallAct("remove_header_map_value") : GetExpectRemoveHeaderMapValue(a)
    \/ CanCall /\ \E a \in SmallAct("add_header_map_value") : GetExpectAddHeaderMapValue(a)
    \/ CanCall /\ \E a \in SmallAct("send_local_response") : GetExpectSendLocalResponse(a)
    \/ CanCall /\ \E a \in SmallAct("http_call") : GetExpectHttpCall(a)
    \/ CanCall /\ \E a \in SmallAct("metrics_create") : GetExpectMetricCreate(a)
    \/ CanCall /\ \E a \in SmallAct("metrics_increment") : GetExpectMetricIncrement(a)
    \/ CanCall /\ \E a \in SmallAct("metrics_record") : GetExpectMetricRecord(a)
    \/ CanCall /\ \E a \in SmallAct("metrics_get") : GetExpectMetricGet(a)
    \/ \E allow_unexpected \in BOOLEAN : UpdateStage(allow_unexpected)
    \/ AssertStage
    \/ PrintStaged

Spec == Init /\ [][Next]_vars

\* Runs: set_expect_* calls on one queue, then get_expect_* calls on it
\* whose arguments agree with the elements in the order they were pushed,
\* after any calls that leave that queue empty.  Only steps that do not
\* break the run are taken.  Per kind the expectations tried are one with every Option
\* present, one with every Option absent and one with only the first
\* present.
RunExpOf(k) ==
    IF k \in MetricKinds
    THEN RichExp(k)
    ELSE LET full == CHOOSE x \in SmallExpOf(k) : \A i \in DOMAIN x : x[i] # None
         IN  { full,
               [i \in DOMAIN full |-> None],
               [i \in DOMAIN full |-> IF i = 1 THEN full[i] ELSE None] }

RunExpTab == [k \in Kinds |-> RunExpOf(k)]

RunExp(k) == RunExpTab[k]

RunAlive == obs.run.st # "dead"

NextRun ==
    \/ CanEnqueue /\ \E a \in RunExp("log_message") : SetExpectLog(a) /\ RunAlive'
    \/ CanEnqueue /\ \E a \in RunExp("tick_period_millis") : SetExpectSetTickPeriodMillis(a) /\ RunAlive'
    \/ CanEnqueue /\ \E a \in RunExp("current_time_nanos") : SetExpectGetCurrentTimeNanos(a) /\ RunAlive'
    \/ CanEnqueue /\ \E a \in RunExp("get_buffer_bytes") : SetExpectGetBufferBytes(a) /\ RunAlive'
    \/ CanEnqueue /\ \E a \in RunExp("set_buffer_bytes") : SetExpectSetBufferBytes(a) /\ RunAlive'
    \/ CanEnqueue /\ \E a \in RunExp("get_header_map_pairs") : SetExpectGetHeaderMapPairs(a) /\ RunAlive'
    \/ CanEnqueue /\ \E a \in RunExp("set_header_map_pairs") : SetExpectSetHeaderMapPairs(a) /\ RunAlive'
    \/ CanEnqueue /\ \E a \in RunExp("get_header_map_value") : SetExpectGetHeaderMapValue(a) /\ RunAlive'
    \/ CanEnqueue /\ \E a \in RunExp("replace_header_map_value") : SetExpectReplaceHeaderMapValue(a) /\ RunAlive'
    \/ CanEnqueue /\ \E a \in RunExp("remove_header_map_value") : SetExpectRemoveHeaderMapValue(a) /\ RunAlive'
    \/ CanEnqueue /\ \E a \in RunExp("add_header_map_value") : SetExpectAddHeaderMapValue(a) /\ RunAlive'
    \/ CanEnqueue /\ \E a \in RunExp("send_local_response") : SetExpectSendLocalResponse(a) /\ RunAlive'
    \/ CanEnqueue /\ \E a \in RunExp("http_call") : SetExpectHttpCall(a) /\ RunAlive'
    \/ CanEnqueue /\ \E a \in RunExp("metrics_create") : SetExpectMetricCreate(a) /\ RunAlive'
    \/ CanEnqueue /\ \E a \in RunExp("metrics_increment") : SetExpectMetricIncrement(a) /\ RunAlive'
    \/ CanEnqueue /\ \E a \in RunExp("metrics_record") : SetExpectMetricRecord(a) /\ RunAlive'
    \/ CanEnqueue /\ \E a \in RunExp("metrics_get") : SetExpectMetricGet(a) /\ RunAlive'
    \/ CanCall /\ \E a \in SmallAct("log_message") : GetExpectLog(a) /\ RunAlive'
    \/ CanCall /\ \E a \in SmallAct("tick_period_millis") : GetExpectSetTickPeriodMillis(a) /\ RunAlive'
    \/ CanCall /\ \E a \in SmallAct("current_time_nanos") : GetExpectGetCurrentTimeNanos(a) /\ RunAlive'
    \/ CanCall /\ \E a \in SmallAct("get_buffer_bytes") : GetExpectGetBufferBytes(a) /\ RunAlive'
    \/ CanCall /\ \E a \in SmallAct("set_buffer_bytes") : GetExpectSetBufferBytes(a) /\ RunAlive'
    \/ CanCall /\ \E a \in SmallAct("get_header_map_pairs") : GetExpectGetHeaderMapPairs(a) /\ RunAlive'
    \/ CanCall /\ \E a \in SmallAct("set_header_map_pairs") : GetExpectSetHeaderMapPairs(a) /\ RunAlive'
    \/ CanCall /\ \E a \in SmallAct("get_header_map_value") : GetExpectGetHeaderMapValue(a) /\ RunAlive'
    \/ CanCall /\ \E a \in SmallAct("replace_header_map_value") : GetExpectReplaceHeaderMapValue(a) /\ RunAlive'
    \/ CanCall /\ \E a \in SmallAct("remove_header_map_value") : GetExpectRemoveHeaderMapValue(a) /\ RunAlive'
    \/ CanCall /\ \E a \in SmallAct("add_header_map_value") : GetExpectAddHeaderMapValue(a) /\ RunAlive'
    \/ CanCall /\ \E a \in SmallAct("send_local_response") : GetExpectSendLocalResponse(a) /\ RunAlive'
    \/ CanCall /\ \E a \in SmallAct("http_call") : GetExpectHttpCall(a) /\ RunAlive'
    \/ CanCall /\ \E a \in SmallAct("metrics_create") : GetExpectMetricCreate(a) /\ RunAlive'
    \/ CanCall /\ \E a \in SmallAct("metrics_increment") : GetExpectMetricIncrement(a) /\ RunAlive'
    \/ CanCall /\ \E a \in SmallAct("metrics_record") : GetExpectMetricRecord(a) /\ RunAlive'
    \/ CanCall /\ \E a \in SmallAct("metrics_get") : GetExpectMetricGet(a) /\ RunAlive'
    \/ \E allow_unexpected \in BOOLEAN : UpdateStage(allow_unexpected) /\ RunAlive'
    \/ AssertStage /\ RunAlive'
    \/ PrintStaged /\ RunAlive'

SpecRun == InitObs /\ [][NextRun]_vars

\* Single comparisons over the Rich inputs: on each staged structure one
\* set_expect_* call and one get_expect_* call, on the queue that holds the
\* element if one does
CanEnqueueOne == QueueLen(staged) = 0 /\ hist.calls = 0

CanCallOne(k) == hist.calls = 0 /\ (QueueLen(staged) = 0 \/ Len(staged[k]) > 0)

NextCmp ==
    \/ CanEnqueueOne /\ \E a \in RichExp("log_message") : SetExpectLog(a)
    \/ CanEnqueueOne /\ \E a \in RichExp("tick_period_millis") : SetExpectSetTickPeriodMillis(a)
    \/ CanEnqueueOne /\ \E a \in RichExp("current_time_nanos") : SetExpectGetCurrentTimeNanos(a)
    \/ CanEnqueueOne /\ \E a \in RichExp("get_buffer_bytes") : SetExpectGetBufferBytes(a)
    \/ CanEnqueueOne /\ \E a \in RichExp("set_buffer_bytes") : SetExpectSetBufferBytes(a)
    \/ CanEnqueueOne /\ \E a \in RichExp("get_header_map_pairs") : SetExpectGetHeaderMapPairs(a)
    \/ CanEnqueueOne /\ \E a \in RichExp("set_header_map_pairs") : SetExpectSetHeaderMapPairs(a)
    \/ CanEnqueueOne /\ \E a \in RichExp("get_header_map_value") : SetExpectGetHeaderMapValue(a)
    \/ CanEnqueueOne /\ \E a \in RichExp("replace_header_map_value") : SetExpectReplaceHeaderMapValue(a)
    \/ CanEnqueueOne /\ \E a \in RichExp("remove_header_map_value") : SetExpectRemoveHeaderMapValue(a)
    \/ CanEnqueueOne /\ \E a \in RichExp("add_header_map_value") : SetExpectAddHeaderMapValue(a)
    \/ CanEnqueueOne /\ \E a \in RichExp("send_local_response") : SetExpectSendLocalResponse(a)
    \/ CanEnqueueOne /\ \E a \in RichExp("http_call") : SetExpectHttpCall(a)
    \/ CanEnqueueOne /\ \E a \in RichExp("metrics_create") : SetExpectMetricCreate(a)
    \/ CanEnqueueOne /\ \E a \in RichExp("metrics_increment") : SetExpectMetricIncrement(a)
    \/ CanEnqueueOne /\ \E a \in RichExp("metrics_record") : SetExpectMetricRecord(a)
    \/ CanEnqueueOne /\ \E a \in RichExp("metrics_get") : SetExpectMetricGet(a)
    \/ CanCallOne("log_message") /\ \E a \in RichAct("log_message") : GetExpectLog(a)
    \/ CanCallOne("tick_period_millis") /\ \E a \in RichAct("tick_period_millis") : GetExpectSetTickPeriodMillis(a)
    \/ CanCallOne("current_time_nanos") /\ \E a \in RichAct("current_time_nanos") : GetExpectGetCurrentTimeNanos(a)
    \/ CanCallOne("get_buffer_bytes") /\ \E a \in RichAct("get_buffer_bytes") : GetExpectGetBufferBytes(a)
    \/ CanCallOne("set_buffer_bytes") /\ \E a \in RichAct("set_buffer_bytes") : GetExpectSetBufferBytes(a)
    \/ CanCallOne("get_header_map_pairs") /\ \E a \in RichAct("get_header_map_pairs") : GetExpectGetHeaderMapPairs(a)
    \/ CanCallOne("set_header_map_pairs") /\ \E a \in RichAct("set_header_map_pairs") : GetExpectSetHeaderMapPairs(a)
    \/ CanCallOne("get_header_map_value") /\ \E a \in RichAct("get_header_map_value") : GetExpectGetHeaderMapValue(a)
    \/ CanCallOne("replace_header_map_value") /\ \E a \in RichAct("replace_header_map_value") : GetExpectReplaceHeaderMapValue(a)
    \/ CanCallOne("remove_header_map_value") /\ \E a \in RichAct("remove_header_map_value") : GetExpectRemoveHeaderMapValue(a)
    \/ CanCallOne("add_header_map_value") /\ \E a \in RichAct("add_header_map_value") : GetExpectAddHeaderMapValue(a)
    \/ CanCallOne("send_local_response") /\ \E a \in RichAct("send_local_response") : GetExpectSendLocalResponse(a)
    \/ CanCallOne("http_call") /\ \E a \in RichAct("http_call") : GetExpectHttpCall(a)
    \/ CanCallOne("metrics_create") /\ \E a \in RichAct("metrics_create") : GetExpectMetricCreate(a)
    \/ CanCallOne("metrics_increment") /\ \E a \in RichAct("metrics_increment") : GetExpectMetricIncrement(a)
    \/ CanCallOne("metrics_record") /\ \E a \in RichAct("metrics_record") : GetExpectMetricRecord(a)
    \/ CanCallOne("metrics_get") /\ \E a \in RichAct("metrics_get") : GetExpectMetricGet(a)
    \/ \E allow_unexpected \in BOOLEAN : UpdateStage(allow_unexpected)
    \/ AssertStage
    \/ PrintStaged

SpecCmp == InitObs /\ [][NextCmp]_vars

(***************************************************************************)
(* Properties.                                                             *)
(***************************************************************************)
\* The step is a get_expect_* call on queue k (Small inputs)
GetStep(k) == \E a \in SmallAct(k) : GetExpect(k, a)

Queues(e) == [k \in Kinds |-> e[k]]

\* C1: a get_expect_* call that finds its queue non-empty removes exactly the
\* front element (the rest keep their order) and decrements expect_count by
\* exactly 1, whatever the comparison yields.
C1_RemovesFront ==
    [][\A k \in Kinds :
          (GetStep(k) /\ Len(staged[k]) > 0)
              => /\ staged'[k] = Tail(staged[k])
                 /\ staged'.expect_count = staged.expect_count - 1]_vars

\* C1 defect reached: a get_expect_* call found its queue non-empty, reported
\* Failed and decremented expect_count, and every queue is as long as before.
C1_Defect ==
    /\ last.op = "get_expect"
    /\ last.found > 0
    /\ status = << "Failed" >>
    /\ staged.expect_count = last.count - 1
    /\ QueueLen(staged) = last.queued

\* C2: FIFO per queue: the i-th get_expect_* call that reads an element of a
\* queue reads the i-th element pushed on that queue, and no other.
C2_Fifo ==
    \A k \in Kinds : \A i \in 1..Len(hist.cmp[k]) : hist.cmp[k][i] = {i}

\* C3: expect_count is the number of set_expect_* calls, minus the number of
\* elements removed from queues, minus the number of get_expect_* calls that
\* found their queue empty while allow_unexpected was false.
C3_Balance ==
    staged.expect_count = Enqueued - hist.removed - hist.penalties

\* C4: a get_expect_* call that finds its queue non-empty reports Expected
\* when every argument position at which the front element holds a concrete
\* value equals the actual argument, and Failed otherwise; never Unexpected.
C4_ExpectedIffAgrees ==
    [][\A k \in Kinds : \A a \in RichAct(k) :
          (last'.op = "get_expect" /\ Len(staged[k]) > 0 /\ GetExpect(k, a))
              => status' = << IF Agrees(k, staged[k][1].rec, a)
                              THEN "Expected" ELSE "Failed" >>]_vars

\* C5: a get_expect_* call that finds its queue empty reports Unexpected and
\* leaves every queue unchanged; it decrements expect_count by exactly 1 when
\* allow_unexpected is false and leaves it unchanged when it is true.
C5_Deficit ==
    [][(last'.op = "get_expect" /\ last'.found = 0)
          => /\ status' = << "Unexpected" >>
             /\ Queues(staged') = Queues(staged)
             /\ staged'.allow_unexpected = staged.allow_unexpected
             /\ staged'.expect_count =
                   IF staged.allow_unexpected
                   THEN staged.expect_count
                   ELSE staged.expect_count - 1]_vars

\* C5 witness: with allow_unexpected false, a get_expect_* call has found its
\* queue empty while another queue held an element.
C5_Witness ==
    /\ last.op = "get_expect"
    /\ last.found = 0
    /\ status = << "Unexpected" >>
    /\ ~staged.allow_unexpected
    /\ last.queued > 0
    /\ staged.expect_count = last.count - 1

\* C6: assert_stage panics whenever some queue still holds an element and
\* whenever a get_expect_* call found its queue empty while allow_unexpected
\* was false, and returns only when neither is the case.
C6_FinishDetects ==
    last.op = "assert_stage"
        => (panic # None <=> (QueueLen(staged) > 0 \/ hist.penalties > 0))

\* C6 defect reached: assert_stage returned although a queue holds an
\* element and a get_expect_* call found its queue empty with
\* allow_unexpected false.
C6_Defect ==
    /\ last.op = "assert_stage"
    /\ panic = None
    /\ QueueLen(staged) > 0
    /\ hist.penalties > 0

\* C7: assert_stage is decided by the sign of expect_count alone: positive
\* panics reporting expect_count remaining expectations, negative panics
\* reporting -expect_count unaccounted host calls, zero returns and changes
\* nothing.
C7_FinishBySign ==
    [][last'.op = "assert_stage"
          => /\ staged.expect_count > 0
                  => panic' = PanicRemaining(staged.expect_count)
             /\ staged.expect_count < 0
                  => panic' = PanicUnaccounted(0 - staged.expect_count)
             /\ staged.expect_count = 0
                  => panic' = None /\ staged' = staged]_vars

\* C7 witness: assert_stage has panicked over a negative expect_count.
C7_Witness ==
    /\ last.op = "assert_stage"
    /\ last.count < 0
    /\ panic = PanicUnaccounted(0 - last.count)

\* C8: update_stage(allow_unexpected), from any state, leaves every queue
\* empty, expect_count 0 and the flag equal to its argument, so nothing
\* pushed before it is left for a later get_expect_* call; update_stage
\* after update_stage with the same flag changes nothing.
C8_Reset ==
    [][\A b \in BOOLEAN :
          (last'.op = "update_stage" /\ UpdateStage(b))
              => /\ \A k \in Kinds : staged'[k] = << >>
                 /\ staged'.expect_count = 0
                 /\ staged'.allow_unexpected = b
                 /\ (last.op = "update_stage" /\ staged.allow_unexpected = b)
                        => staged' = staged]_vars

\* C8 witness: update_stage has replaced a structure that held an element
\* and had a negative expect_count.
C8_Witness ==
    /\ last.op = "update_stage"
    /\ last.queued > 0
    /\ last.count < 0
    /\ QueueLen(staged) = 0

\* C9: while allow_unexpected is true, expect_count is never negative.
C9_LenientNonNegative ==
    staged.allow_unexpected => staged.expect_count >= 0

\* C10: no element is read by more than one get_expect_* call: the calls that
\* read an element of a queue read different elements, each the one pushed
\* right after the one the previous call read.
C10_NoRetry ==
    \A k \in Kinds :
        \A i \in 1..Len(hist.cmp[k]), j \in 1..Len(hist.cmp[k]) :
            /\ i < j => hist.cmp[k][i] \cap hist.cmp[k][j] = {}
            /\ j = i + 1 => hist.cmp[k][j] = { n + 1 : n \in hist.cmp[k][i] }

\* Every argument position of the tuple x for queue k is None
AllWild(k, x) == k \notin MetricKinds /\ \A i \in ArgPositions(k) : x[i] = None

\* The queues on which set_expect_* accepts a tuple with every argument None
WildcardKinds == { k \in Kinds : \E x \in RichExp(k) : AllWild(k, x) }

\* The latest call was a get_expect_* call that found at the front of its
\* queue an element with every argument position None
FoundAllWild ==
    /\ last.op = "get_expect"
    /\ obs.front # None
    /\ AllWild(obs.kind, obs.front[1].rec)

C12_RunExpected ==
    LET run == obs.run
    IN  (run.st = "deq" /\ last.op = "get_expect")
            => /\ status = << "Expected" >>
               /\ hist.cmp[run.k][Len(hist.cmp[run.k])] = { run.recs[run.m].seq }
               /\ Len(staged[run.k]) = Len(run.recs) - run.m
               /\ run.m = Len(run.recs)
                      => staged[run.k] = << >> /\ staged.expect_count = run.base

\* C12 witness: a run of two pushes of different elements and two calls is
\* complete.
C12_Witness ==
    /\ last.op = "get_expect"
    /\ obs.run.st = "deq"
    /\ Len(obs.run.recs) = 2
    /\ obs.run.recs[1].rec # obs.run.recs[2].rec
    /\ obs.run.m = 2
    /\ staged.expect_count = obs.run.base

\* C13: every get_expect_* call hands set_status exactly one status, one of
\* Expected, Unexpected and Failed, whichever arm it takes; set_expect_*,
\* update_stage, assert_stage and print_staged hand it none.
C13_OneStatusPerCall ==
    IF last.op = "get_expect"
    THEN Len(status) = 1 /\ status[1] \in {"Expected", "Unexpected", "Failed"}
    ELSE status = << >>

\* C13 witness: a get_expect_* call whose arguments differ from the element
\* at the front handed set_status the single status Failed.
C13_Witness ==
    /\ last.op = "get_expect"
    /\ last.found > 0
    /\ status = << "Failed" >>
    /\ QueueLen(staged) = last.queued - 1

\* The step pushes one element at the back of queue k and touches nothing
\* else but expect_count, which it increments
PushesOn(k) ==
    /\ Len(staged'[k]) = Len(staged[k]) + 1
    /\ SubSeq(staged'[k], 1, Len(staged[k])) = staged[k]
    /\ \A j \in Kinds \ {k} : staged'[j] = staged[j]
    /\ staged'.expect_count = staged.expect_count + 1
    /\ staged'.allow_unexpected = staged.allow_unexpected

Alone(e, k) ==
    [ Expect_new(e.allow_unexpected) EXCEPT ![k] = e[k], !.expect_count = e.expect_count ]

\* C15: a get_expect_* call on one queue leaves every other queue unchanged,
\* and what it reports, returns and leaves on its own queue and in
\* expect_count is what the same call does when every other queue is empty;
\* so the outcomes on one queue are the same however calls on other queues
\* are interleaved with them
C15_NoCoupling ==
    [][ last'.op = "get_expect" =>
          LET k == obs'.kind
              alone == get_expect(k, Alone(staged, k), obs'.args)
          IN  /\ \A j \in Kinds \ {k} : staged'[j] = staged[j]
              /\ status' = alone.status
              /\ ret' = alone.ret
              /\ staged'[k] = alone.e[k]
              /\ staged'.expect_count = alone.e.expect_count ]_vars

\* A get_expect_* call has removed the front of one queue while another
\* queue held an element, which is still there
C15_Witness ==
    /\ last.op = "get_expect"
    /\ last.found = 1
    /\ last.queued = 2
    /\ QueueLen(staged) = 1
    /\ staged[obs.kind] = << >>
    /\ status = << "Expected" >>

\* One stage, as a test drives it: update_stage chooses the mode, the
\* set_expect_* calls stage the queues, then come the get_expect_* calls on
\* the queues that were staged (emptied or not); the ghost record of each
\* call is kept
CanChoose == Enqueued = 0 /\ hist.calls = 0 /\ last.op = "new"

CanStage == CanEnqueue /\ hist.calls = 0

CanConsume(k) == CanCall /\ hist.enq[k] > 0

NextObs ==
    \/ CanStage /\ \E a \in SmallExp("log_message") : SetExpectLog(a)
    \/ CanStage /\ \E a \in SmallExp("tick_period_millis") : SetExpectSetTickPeriodMillis(a)
    \/ CanStage /\ \E a \in SmallExp("current_time_nanos") : SetExpectGetCurrentTimeNanos(a)
    \/ CanStage /\ \E a \in SmallExp("get_buffer_bytes") : SetExpectGetBufferBytes(a)
    \/ CanStage /\ \E a \in SmallExp("set_buffer_bytes") : SetExpectSetBufferBytes(a)
    \/ CanStage /\ \E a \in SmallExp("get_header_map_pairs") : SetExpectGetHeaderMapPairs(a)
    \/ CanStage /\ \E a \in SmallExp("set_header_map_pairs") : SetExpectSetHeaderMapPairs(a)
    \/ CanStage /\ \E a \in SmallExp("get_header_map_value") : SetExpectGetHeaderMapValue(a)
    \/ CanStage /\ \E a \in SmallExp("replace_header_map_value") : SetExpectReplaceHeaderMapValue(a)
    \/ CanStage /\ \E a \in SmallExp("remove_header_map_value") : SetExpectRemoveHeaderMapValue(a)
    \/ CanStage /\ \E a \in SmallExp("add_header_map_value") : SetExpectAddHeaderMapValue(a)
    \/ CanStage /\ \E a \in SmallExp("send_local_response") : SetExpectSendLocalResponse(a)
    \/ CanStage /\ \E a \in SmallExp("http_call") : SetExpectHttpCall(a)
    \/ CanStage /\ \E a \in SmallExp("metrics_create") : SetExpectMetricCreate(a)
    \/ CanStage /\ \E a \in SmallExp("metrics_increment") : SetExpectMetricIncrement(a)
    \/ CanStage /\ \E a \in SmallExp("metrics_record") : SetExpectMetricRecord(a)
    \/ CanStage /\ \E a \in SmallExp("metrics_get") : SetExpectMetricGet(a)
    \/ CanConsume("log_message") /\ \E a \in SmallAct("log_message") : GetExpectLog(a)
    \/ CanConsume("tick_period_millis") /\ \E a \in SmallAct("tick_period_millis") : GetExpectSetTickPeriodMillis(a)
    \/ CanConsume("current_time_nanos") /\ \E a \in SmallAct("current_time_nanos") : GetExpectGetCurrentTimeNanos(a)
    \/ CanConsume("get_buffer_bytes") /\ \E a \in SmallAct("get_buffer_bytes") : GetExpectGetBufferBytes(a)
    \/ CanConsume("set_buffer_bytes") /\ \E a \in SmallAct("set_buffer_bytes") : GetExpectSetBufferBytes(a)
    \/ CanConsume("get_header_map_pairs") /\ \E a \in SmallAct("get_header_map_pairs") : GetExpectGetHeaderMapPairs(a)
    \/ CanConsume("set_header_map_pairs") /\ \E a \in SmallAct("set_header_map_pairs") : GetExpectSetHeaderMapPairs(a)
    \/ CanConsume("get_header_map_value") /\ \E a \in SmallAct("get_header_map_value") : GetExpectGetHeaderMapValue(a)
    \/ CanConsume("replace_header_map_value") /\ \E a \in SmallAct("replace_header_map_value") : GetExpectReplaceHeaderMapValue(a)
    \/ CanConsume("remove_header_map_value") /\ \E a \in SmallAct("remove_header_map_value") : GetExpectRemoveHeaderMapValue(a)
    \/ CanConsume("add_header_map_value") /\ \E a \in SmallAct("add_header_map_value") : GetExpectAddHeaderMapValue(a)
    \/ CanConsume("send_local_response") /\ \E a \in SmallAct("send_local_response") : GetExpectSendLocalResponse(a)
    \/ CanConsume("http_call") /\ \E a \in SmallAct("http_call") : GetExpectHttpCall(a)
    \/ CanConsume("metrics_create") /\ \E a \in SmallAct("metrics_create") : GetExpectMetricCreate(a)
    \/ CanConsume("metrics_increment") /\ \E a \in SmallAct("metrics_increment") : GetExpectMetricIncrement(a)
    \/ CanConsume("metrics_record") /\ \E a \in SmallAct("metrics_record") : GetExpectMetricRecord(a)
    \/ CanConsume("metrics_get") /\ \E a \in SmallAct("metrics_get") : GetExpectMetricGet(a)
    \/ CanChoose /\ \E allow_unexpected \in BOOLEAN : UpdateStage(allow_unexpected)

SpecObs == InitObs /\ [][NextObs]_vars

\* The kinds whose get_expect_* function returns an Option
ResultKinds ==
    { "current_time_nanos", "get_buffer_bytes", "get_header_map_pairs",
      "get_header_map_value", "http_call" }

\* The result given to set_expect_* on queue k with arguments a, as a value
\* of the type get_expect_* returns
Stubbed(k, a) ==
    CASE k = "current_time_nanos" -> Option_map(a[1], WidenU128)
      [] k = "get_buffer_bytes" -> Option_map(a[2], as_bytes)
      [] k = "get_header_map_pairs" -> Option_map(a[2], serialize_map)
      [] k = "get_header_map_value" -> a[3]
      [] k = "http_call" -> a[6]

\* The result field of an element of queue k
StoredResult(k, rec) ==
    CASE k = "current_time_nanos" -> Option_map(rec[1], SystemTime_as_nanos)
      [] k = "get_buffer_bytes" -> rec[2]
      [] k = "get_header_map_pairs" -> rec[2]
      [] k = "get_header_map_value" -> rec[3]
      [] k = "http_call" -> rec[6]

\* C16: a get_expect_* call of a kind that returns a result returns, on a
\* non-empty queue, the result held by the front element, which is the one
\* given to set_expect_* when the element was pushed (None when none was
\* given), whether the status is Expected or Failed; on an empty queue it
\* returns None
C16_ReturnsStored ==
    [][ (last'.op = "get_expect" /\ obs'.kind \in ResultKinds) =>
          IF last'.found = 0
          THEN ret' = Returns(None)
          ELSE /\ status' \in { << "Expected" >>, << "Failed" >> }
               /\ ret' = Returns(StoredResult(obs'.kind, obs'.front[1].rec))
               /\ last.op = "set_expect" => ret' = Returns(Stubbed(obs.kind, obs.args)) ]_vars

\* A get_expect_get_header_map_value call has failed its comparison and
\* returned the value held by the element
C16_Witness ==
    /\ last.op = "get_expect"
    /\ obs.kind = "get_header_map_value"
    /\ status = << "Failed" >>
    /\ obs.front # None
    /\ obs.front[1].rec[3] # None
    /\ ret = Returns(obs.front[1].rec[3])

\* The argument positions of queue k that hold a serialized map
MapPositions(k) ==
    CASE k = "set_header_map_pairs" -> {2}
      [] k = "send_local_response" -> {3}
      [] k = "http_call" -> {2, 4}
      [] OTHER -> {}

\* The sequences of pairs of Maps that serialize to bytes
MapsOf(bytes) == { m \in Maps : serialize_map(m) = bytes }

\* C17: where set_expect_* was given a sequence of pairs, a get_expect_* call
\* whose map argument serializes another sequence, the same pairs in another
\* order included, reports Failed; Expected is reported only when the two
\* are the same pairs in the same order
C17_OrderSensitive ==
    (last.op = "get_expect" /\ obs.front # None) =>
        \A p \in MapPositions(obs.kind) :
            LET held == obs.front[1].rec[p]
            IN  held # None =>
                  \A m \in MapsOf(held[1]), actual \in MapsOf(obs.args[p]) :
                      /\ m # actual => status = << "Failed" >>
                      /\ status = << "Expected" >> => m = actual

\* A get_expect_http_call call whose trailers are the held pairs in the
\* other order, every other field of the element being None, reports Failed
C17_Witness ==
    /\ last.op = "get_expect"
    /\ obs.kind = "http_call"
    /\ obs.front # None
    /\ \A i \in {1, 2, 3, 5} : obs.front[1].rec[i] = None
    /\ obs.front[1].rec[4] = Some(serialize_map(Map1))
    /\ obs.args[4] = serialize_map(Map2)
    /\ status = << "Failed" >>

\* C18: while allow_unexpected is set and no set_expect_* call was made since
\* update_stage, every get_expect_* call reports Unexpected, expect_count
\* stays 0 and assert_stage returns; and assert_stage right after
\* update_stage, whatever its argument, returns
C18_LenientIdle ==
    /\ (staged.allow_unexpected /\ Enqueued = 0) =>
          /\ staged.expect_count = 0
          /\ last.op = "get_expect" => status = << "Unexpected" >>
          /\ last.op = "assert_stage" => panic = None
    /\ (last.op = "assert_stage" /\ Enqueued = 0 /\ hist.calls = 0) => panic = None

\* Two get_expect_* calls were made with allow_unexpected set and nothing
\* pushed, and assert_stage has then returned
C18_Witness ==
    /\ staged.allow_unexpected
    /\ Enqueued = 0
    /\ hist.calls = 2
    /\ last.op = "assert_stage"
    /\ panic = None

\* C19: allow_unexpected is set by Expect::new; no set_expect_*, get_expect_*,
\* assert_stage or print_staged call changes it, only update_stage, which
\* installs a new structure, can
C19_FlagFixed ==
    [][ last'.op # "update_stage" =>
          staged'.allow_unexpected = staged.allow_unexpected ]_vars

\* allow_unexpected is still set after set_expect_* and get_expect_* calls,
\* the last of them on a non-empty queue
C19_Witness ==
    /\ staged.allow_unexpected
    /\ last.op = "get_expect"
    /\ last.found > 0
    /\ hist.calls = 2

\* C20: print_staged, and an assert_stage that returns, leave the staged
\* structure as it was: every queue, expect_count and allow_unexpected
C20_ReadOnly ==
    [][ (\/ last'.op = "print_staged"
         \/ last'.op = "assert_stage" /\ panic' = None) =>
          staged' = staged ]_vars

\* assert_stage has returned on a structure that still holds an element,
\* in the mode set by update_stage
C20_Witness ==
    /\ last.op = "assert_stage"
    /\ panic = None
    /\ QueueLen(staged) > 0
    /\ staged.allow_unexpected

C22_FailedStillConsumes ==
    /\ ( /\ last.op = "get_expect"
         /\ obs.front # None
         /\ ~Agrees(obs.kind, obs.front[1].rec, obs.args) ) =>
          /\ status = << "Failed" >>
          /\ Len(staged[obs.kind]) = last.found - 1
          /\ staged.expect_count = last.count - 1
    /\ ( /\ last.op = "get_expect"
         /\ status = << "Failed" >>
         /\ QueueLen(staged) = 0
         /\ hist.calls = Enqueued
         /\ hist.removed = Enqueued ) =>
          /\ staged.expect_count = 0
          /\ assert_stage(staged) = None

\* C22 defect reached: a get_expect_set_header_map_pairs call differed from
\* the only element at map_type, reported Failed and decremented
\* expect_count, and the element is still there
C22_Defect ==
    /\ last.op = "get_expect"
    /\ obs.kind = "set_header_map_pairs"
    /\ last.found = 1
    /\ status = << "Failed" >>
    /\ staged.expect_count = last.count - 1
    /\ Len(staged.set_header_map_pairs) = 1

\* C23: while allow_unexpected is set, expect_count is the number of
\* elements held by the queues, so assert_stage returns exactly when every
\* queue is empty
C23_LenientCountsHeld ==
    staged.allow_unexpected =>
        /\ staged.expect_count = QueueLen(staged)
        /\ assert_stage(staged) = None <=> QueueLen(staged) = 0

\* C23 defect reached: allow_unexpected is set, a queue holds an element and
\* expect_count is 0, so that assert_stage has returned
C23_Defect ==
    /\ staged.allow_unexpected
    /\ QueueLen(staged) = 1
    /\ staged.expect_count = 0
    /\ last.op = "assert_stage"
    /\ panic = None

\* The argument position of queue k that holds the body
BodyPosition(k) == IF k = "send_local_response" THEN 2 ELSE 3

\* The call just made is get_expect_send_local_response or
\* get_expect_http_call, on a non-empty queue, with body None
NoBodyCall ==
    /\ last.op = "get_expect"
    /\ obs.kind \in {"send_local_response", "http_call"}
    /\ obs.front # None
    /\ obs.args[BodyPosition(obs.kind)] = None

\* C24: for send_local_response and http_call, a call with body None on a
\* front element that holds a body, whatever string it is, reports Failed;
\* such a call reports Expected only when the element's body is None
C24_AbsentBody ==
    NoBodyCall =>
        LET held == obs.front[1].rec[BodyPosition(obs.kind)]
        IN  /\ held # None => status = << "Failed" >>
            /\ status = << "Expected" >> => held = None

\* C24 defect reached: a get_expect_send_local_response call with body None
\* has reported Expected on an element that holds the body "default"
C24_Defect ==
    /\ NoBodyCall
    /\ obs.kind = "send_local_response"
    /\ obs.front[1].rec[2] = Some("default")
    /\ status = << "Expected" >>

\* C25: a get_expect_http_call call on a front element that holds a timeout
\* of T milliseconds (a u64) reports Expected only when its i32 timeout t
\* is T; a T that differs from t by a multiple of 2^32 does not pass
C25_TimeoutExact ==
    ( /\ last.op = "get_expect"
      /\ obs.kind = "http_call"
      /\ obs.front # None
      /\ obs.front[1].rec[5] # None
      /\ status = << "Expected" >> ) =>
        PosMillisI32(obs.front[1].rec[5], obs.args[5])

\* C25 defect reached: a get_expect_http_call call with timeout 5 has
\* reported Expected on an element that holds 2^32 + 5 milliseconds
C25_Defect ==
    /\ last.op = "get_expect"
    /\ obs.kind = "http_call"
    /\ obs.front # None
    /\ obs.front[1].rec[5] = Some(Duration_from_millis(<< 0, 1, 0, 5 >>))
    /\ obs.args[5] = 5
    /\ status = << "Expected" >>

\* C26: the handle ExpectHandle::new returns stages a structure with
\* allow_unexpected false, every queue empty and expect_count 0; on it,
\* before any update_stage, assert_stage returns, and a get_expect_* call of
\* any kind reports Unexpected and leaves expect_count at -1
C26_FreshHandle ==
    [][ last.op = "new" =>
          /\ ~staged.allow_unexpected
          /\ staged.expect_count = 0
          /\ QueueLen(staged) = 0
          /\ last'.op = "assert_stage" => panic' = None
          /\ last'.op = "get_expect" =>
                /\ status' = << "Unexpected" >>
                /\ staged'.expect_count = -1 ]_vars

\* The first call on a handle was a get_expect_* call: it reported
\* Unexpected and expect_count is -1
C26_Witness ==
    /\ last.op = "get_expect"
    /\ last.count = 0
    /\ hist.calls = 1
    /\ Enqueued = 0
    /\ ~staged.allow_unexpected
    /\ status = << "Unexpected" >>
    /\ staged.expect_count = -1

=============================================================================
